---------------------------- MODULE Spec2Model ----------------------------
(***************************************************************************)
(* jRna: a blueprint (the jRna object) accumulates declarations; attach    *)
(* binds it to a container subtree and yields a bound instance.            *)
(*                                                                         *)
(* Modelled from src/docs/index.html (the library as embedded in the page, *)
(* lines 387-1312) and src/js/jrna.js (the earlier version of it).         *)
(*                                                                         *)
(* JavaScript values are strings: "undefined", "null", "true", "false" and *)
(* ordinary strings.  User functions are opaque: a call of one is recorded *)
(* in a log with its receiver and arguments.  Property names, class names  *)
(* and state names range over ordinary identifiers, none of which is a     *)
(* member of Object.prototype, so a lookup obj[key] on a plain object is   *)
(* a lookup of an own property.                                            *)
(***************************************************************************)
EXTENDS Integers, Sequences, FiniteSets, TLC

VARIABLES
    meta,      \* the blueprint: the state a jRna object closes over
    insts,     \* the bound instances created so far, with their DOM subtree
    machines,  \* closures returned by jRna.stickySM(...).run()
    last,      \* the most recent call: what was asked, what it did
    calls      \* how many declaration calls the environment has made

vars == <<meta, insts, machines, last, calls>>

-----------------------------------------------------------------------------
(* Values                                                                  *)

Undefined == "undefined"

\* ToBoolean on the values of the model
Truthy(v) == v \notin {"undefined", "null", "false", ""}

\* obj[key] on a plain object held as a function over its own keys
Get(obj, key) == IF key \in DOMAIN obj THEN obj[key] ELSE Undefined

\* obj[key] = val
Put(obj, key, val) ==
    [k \in DOMAIN obj \cup {key} |-> IF k = key THEN val ELSE obj[k]]

EmptyObj == [k \in {} |-> Undefined]

\* an object whose key order matters (for .. in) is a sequence of entries
Keys(o) == {o[i].key : i \in 1..Len(o)}

Lookup(o, key) ==
    IF key \in Keys(o)
    THEN (CHOOSE e \in {o[i] : i \in 1..Len(o)} : e.key = key).val
    ELSE Undefined

\* assignment keeps the position of a key that is already there
PutOrdered(o, key, val) ==
    IF key \in Keys(o)
    THEN [i \in 1..Len(o) |-> IF o[i].key = key THEN [key |-> key, val |-> val] ELSE o[i]]
    ELSE Append(o, [key |-> key, val |-> val])

-----------------------------------------------------------------------------
(* Errors.  blame(msg) throws an Error that carries the blueprint's origin; *)
(* a bare throw new Error(msg) does not.                                   *)

NoErr == [msg |-> "", origin |-> FALSE]

blame(error) == [msg |-> error, origin |-> TRUE]

Throw(error) == [msg |-> error, origin |-> FALSE]

Failed(r) == r.err.msg # ""

\* a declaration method returns [b |-> the blueprint as it leaves it, err |-> ..]
Ok(b) == [b |-> b, err |-> NoErr]

-----------------------------------------------------------------------------
(* The blueprint                                                           *)

prefix == "jrna-"

Reserved == {"appendTo", "container", "element", "id", "onAttach", "onRemove", "remove"}

\* new jRna()
\* the mutant: the reserved names are not barred as arguments
NewBlueprint_ArgsOpen ==
    [ known      |-> [n \in Reserved |-> "true"],
      noArgs     |-> EmptyObj,
      allowArgs  |-> [n \in {"id"} |-> "true"],
      assignArgs |-> [n \in {"id"} |-> "true"],
      isMethod   |-> EmptyObj,
      setup      |-> <<>>,
      wanted     |-> <<>>,
      init       |-> <<>>,
      onAttach   |-> <<>>,
      onRemove   |-> <<>>,
      master     |-> <<>>,
      held       |-> EmptyObj ]

NewBlueprint ==
    [ known      |-> [n \in Reserved |-> "true"],
      noArgs     |-> [n \in Reserved |-> "true"],
      allowArgs  |-> [n \in {"id"} |-> "true"],
      assignArgs |-> [n \in {"id"} |-> "true"],
      isMethod   |-> EmptyObj,
      setup      |-> <<>>,
      wanted     |-> <<>>,
      init       |-> <<>>,
      onAttach   |-> <<>>,
      onRemove   |-> <<>>,
      master     |-> <<>>,
      held       |-> EmptyObj ]

\* the mutant: a name's tag is not compared, any second claim is accepted
lockName_NoCheck(b, name, shared) ==
    Ok([b EXCEPT !.known = Put(b.known, name, IF Truthy(shared) THEN shared ELSE "true")])

\* this.lockName(name, shared)
lockName(b, name, shared) ==
    IF Truthy(Get(b.known, name)) /\ Get(b.known, name) # shared
    THEN [b |-> b, err |-> blame("Property name already in use: " \o name)]
    ELSE Ok([b EXCEPT !.known = Put(b.known, name, IF Truthy(shared) THEN shared ELSE "true")])

\* this.addArgument(name, spec): spec is [forbidden |-> .., assign |-> ..]
\* the mutant: a forbidden name may still be allowed
addArgument_NoBar(b, name, spec) ==
    IF Truthy(spec.forbidden)
    THEN IF Truthy(Get(b.allowArgs, name))
         THEN [b |-> b, err |-> blame("Forbidden argument name: " \o name)]
         ELSE Ok([b EXCEPT !.noArgs = Put(b.noArgs, name, "true")])
    ELSE Ok([b EXCEPT !.allowArgs  = Put(b.allowArgs, name, "true"),
                      !.assignArgs = Put(b.assignArgs, name, spec.assign)])

\* the mutant: the assign flag is written before the name is tested
addArgument_AssignFirst(b, name, spec) ==
    IF Truthy(spec.forbidden)
    THEN IF Truthy(Get(b.allowArgs, name))
         THEN [b |-> b, err |-> blame("Forbidden argument name: " \o name)]
         ELSE Ok([b EXCEPT !.noArgs = Put(b.noArgs, name, "true")])
    ELSE IF Truthy(Get(b.noArgs, name))
         THEN [b |-> [b EXCEPT !.assignArgs = Put(b.assignArgs, name, spec.assign)],
               err |-> blame("Forbidden argument name: " \o name)]
         ELSE Ok([b EXCEPT !.allowArgs  = Put(b.allowArgs, name, "true"),
                           !.assignArgs = Put(b.assignArgs, name, spec.assign)])

addArgument(b, name, spec) ==
    IF Truthy(spec.forbidden)
    THEN IF Truthy(Get(b.allowArgs, name))
         THEN [b |-> b, err |-> blame("Forbidden argument name: " \o name)]
         ELSE Ok([b EXCEPT !.noArgs = Put(b.noArgs, name, "true")])
    ELSE IF Truthy(Get(b.noArgs, name))
         THEN [b |-> b, err |-> blame("Forbidden argument name: " \o name)]
         ELSE Ok([b EXCEPT !.allowArgs  = Put(b.allowArgs, name, "true"),
                           !.assignArgs = Put(b.assignArgs, name, spec.assign)])

\* this.args(...list): one addArgument per name, the first failure ends the call
RECURSIVE args(_, _)
args(b, list) ==
    IF list = <<>> THEN Ok(b)
    ELSE LET r == addArgument(b, Head(list), [forbidden |-> Undefined, assign |-> "true"]) IN
         IF Failed(r) THEN r ELSE args(r.b, Tail(list))

\* this.setup(id, action): action is the record of what the closure captured
setup(b, id, action) ==
    Ok([b EXCEPT !.setup  = Append(b.setup, [id |-> id, action |-> action]),
                 !.wanted = PutOrdered(b.wanted, prefix \o id, id)])

\* jRna.parseId(receptor): a receptor is an array of strings, a plain string
\* being the array of itself; the result is [out |-> <<id, name>>, err |-> ..]
parseId(receptor) ==
    IF Len(receptor) > 2 \/ Len(receptor) = 0
    THEN [out |-> <<>>, err |-> Throw("jRna receptor must be a string or 2-element array")]
    ELSE [out |-> IF Len(receptor) = 1 THEN <<receptor[1], receptor[1]>> ELSE receptor,
          err |-> NoErr]

\* the shape shared by output, rawOutput and input: parse, lock, enqueue
Property(b, kind, receptor) ==
    LET p  == parseId(receptor)
        r1 == lockName(b, p.out[2], Undefined) IN
    IF Failed(p) THEN [b |-> b, err |-> p.err]
    ELSE IF Failed(r1) THEN r1
    ELSE setup(r1.b, p.out[1], [kind |-> kind, name |-> p.out[2]])

\* this.output(receptor)
output(b, receptor) == Property(b, "output", receptor)

\* this.click(id, cb)
click(b, id, cb) == setup(b, id, [kind |-> "click", cb |-> cb])

\* this.stickyClick(id, name, cb)
stickyClick(b, id, name, cb) ==
    LET r1 == lockName(b, name, "stickyClick") IN
    IF Failed(r1) THEN r1
    ELSE setup(r1.b, id, [kind |-> "stickyClick", name |-> name, cb |-> cb])

\* this.element(receptor)
element(b, receptor) ==
    LET p  == parseId(receptor)
        r1 == lockName(b, p.out[2], Undefined)
        r2 == addArgument(r1.b, p.out[2], [forbidden |-> "true", assign |-> Undefined]) IN
    IF Failed(p) THEN [b |-> b, err |-> p.err]
    ELSE IF Failed(r1) THEN r1
    ELSE IF Failed(r2) THEN r2
    ELSE setup(r2.b, p.out[1], [kind |-> "element", name |-> p.out[2]])

\* user functions are named; typeof v === 'function'
Functions == {"f", "g", "h1", "h2", "onS", "onT", "boom",
              "onEdit", "onEstimate", "onSplit", "onAdd", "doSave", "onKey",
              "saver", "closer", "atAttach", "atRemove"}

\* the user functions that throw when called
Throws(f) == f = "boom"

IsFunction(v) == v \in Functions

\* this.init(name, action): action is the record of the factory
init(b, name, action) ==
    LET r1 == lockName(b, name, Undefined) IN
    IF Failed(r1) THEN r1
    ELSE Ok([r1.b EXCEPT !.init = PutOrdered(r1.b.init, name, action)])

\* this.def(name, initial)
def(b, name, initial) ==
    LET r1 == lockName(b, name, Undefined) IN
    IF Failed(r1) THEN r1
    ELSE Ok([r1.b EXCEPT
             !.isMethod = IF IsFunction(initial) THEN Put(r1.b.isMethod, name, "true")
                          ELSE r1.b.isMethod,
             !.init = PutOrdered(r1.b.init, name, [kind |-> "def", val |-> initial])])

\* jRna.stickySM(action_hash, args): the runner, or the error of line 1264
\* an error of a runner that stickyState made: the runner was given
\* origin: name + ' at ' + origin, which its messages end in
Located(err) ==
    IF err.msg \in {"", "thrown by handler"} THEN err ELSE [err EXCEPT !.origin = TRUE]

\* the mutant: any initial state is taken
stickySM_Lenient(action_hash, initial) == NoErr

stickySM(action_hash, initial) ==
    IF initial # Undefined /\ ~Truthy(Get(action_hash, initial))
    THEN Throw("Illegal initial state: " \o initial)
    ELSE NoErr

\* this.stickyState(name, action_hash, initial)
\* the mutant: the initializer returns start itself
initArray_Shared(b, name, start) == init(b, name, [kind |-> "def", val |-> start])

\* this.initArray(name, start), this.initObject(name, start): an
\* initializer that returns a shallow copy of start
initArray(b, name, start) == init(b, name, [kind |-> "initArray", val |-> start])

initObject(b, name, start) == init(b, name, [kind |-> "initObject", val |-> start])

stickyState(b, name, action_hash, initial) ==
    IF stickySM(action_hash, initial).msg # ""
    THEN [b |-> b, err |-> Located(stickySM(action_hash, initial))]
    ELSE init([b EXCEPT !.isMethod = Put(b.isMethod, name, "true")], name,
              [kind |-> "stickyState", table |-> action_hash, val |-> initial])

\* this.onAttach(fun)
onAttach(b, fun) == Ok([b EXCEPT !.onAttach = Append(b.onAttach, fun)])

\* this.onRemove(cb)
onRemove(b, cb) == Ok([b EXCEPT !.onRemove = Append(b.onRemove, cb)])

\* this.rawOutput(receptor), this.input(receptor)
rawOutput(b, receptor) == Property(b, "rawOutput", receptor)

input(b, receptor) == Property(b, "input", receptor)

\* this.toggle(id, cb_on, cb_off)
toggle(b, id, cb_on, cb_off) == setup(b, id, [kind |-> "toggle", cb |-> cb_on, off |-> cb_off])

\* this.on(trigger, id, cb)
on(b, trigger, id, cb) == setup(b, id, [kind |-> "on", trigger |-> trigger, cb |-> cb])

\* this.upload(receptor, type)
upload(b, receptor) ==
    LET p  == parseId(receptor)
        r1 == lockName(b, p.out[2], Undefined)
        r2 == addArgument(r1.b, p.out[2], [forbidden |-> "true", assign |-> Undefined]) IN
    IF Failed(p) THEN [b |-> b, err |-> p.err]
    ELSE IF Failed(r1) THEN r1
    ELSE IF Failed(r2) THEN r2
    ELSE setup(r2.b, p.out[1], [kind |-> "upload", name |-> p.out[2]])

\* a subtree as the object it is: two subtrees of the same shape are two
\* objects when their doc differs
Doc(tree, d) ==
    [n |-> tree.n, parent |-> tree.parent, type |-> tree.type, cls |-> tree.cls, doc |-> d]

\* parseHTML(str): the string is held as the sequence of the top-level
\* nodes it parses to, each a subtree whose root may be a Text node
parseHTML(str) ==
    IF str = <<>> THEN [el |-> <<>>, err |-> blame("Attempt to use empty HTML")]
    ELSE IF str[1].type[1] # 1
    THEN [el |-> <<>>, err |-> blame("Attempt to use non-element as HTML container")]
    ELSE IF Len(str) > 1
    THEN [el |-> <<>>, err |-> blame("Attempt to create multiple tag HTML")]
    ELSE [el |-> <<Doc(str[1], "master")>>, err |-> NoErr]

\* this.html(html): the argument is [given |-> FALSE] for html(), else
\* [given |-> TRUE, str |-> the string]; _master is <<>> when undefined
html(b, h) ==
    IF h.given
    THEN IF Failed(parseHTML(h.str)) THEN [b |-> b, err |-> parseHTML(h.str).err]
         ELSE Ok([b EXCEPT !.master = parseHTML(h.str).el])
    ELSE Ok([b EXCEPT !.master = <<>>])

-----------------------------------------------------------------------------
(* Sticky state machines.  A call of a user function is logged as          *)
(* [f |-> function, this |-> receiver, args |-> arguments].                *)

Call(f, this, arguments) ==
    [t |-> "call", k |-> 0, name |-> f, val |-> Undefined, this |-> this, args |-> arguments]

\* the mutant: the handler of a transition runs even when the state is kept
smCall_Always(action_hash, state, arg, this) ==
    IF arg = Undefined
    THEN [state |-> state, log |-> <<>>, during |-> state, ret |-> state, err |-> NoErr]
    ELSE LET todo == Get(action_hash, arg) IN
         IF ~Truthy(todo)
         THEN [state |-> state, log |-> <<>>, during |-> state, ret |-> Undefined,
               err |-> Throw("Illegal state switch " \o state \o "->" \o arg)]
         ELSE [state |-> arg, log |-> <<Call(todo, this, <<state, arg>>)>>,
               during |-> state, ret |-> this, err |-> NoErr]

\* the mutant: the state is written before the table is consulted
smCall_StateFirst(action_hash, state, arg, this) ==
    IF arg = Undefined
    THEN [state |-> state, log |-> <<>>, during |-> state, ret |-> state, err |-> NoErr]
    ELSE IF arg # state
    THEN LET todo == Get(action_hash, arg) IN
         IF ~Truthy(todo)
         THEN [state |-> arg, log |-> <<>>, during |-> state, ret |-> Undefined,
               err |-> Throw("Illegal state switch " \o state \o "->" \o arg)]
         ELSE [state |-> arg, log |-> <<Call(todo, this, <<state, arg>>)>>,
               during |-> state, ret |-> this, err |-> NoErr]
    ELSE [state |-> state, log |-> <<>>, during |-> state, ret |-> this, err |-> NoErr]

\* the mutant: the state is written before the handler is called
smCall_WriteFirst(action_hash, state, arg, this) ==
    IF arg = Undefined
    THEN [state |-> state, log |-> <<>>, during |-> state, ret |-> state, err |-> NoErr]
    ELSE IF arg # state
    THEN LET todo == Get(action_hash, arg) IN
         IF ~Truthy(todo)
         THEN [state |-> state, log |-> <<>>, during |-> state, ret |-> Undefined,
               err |-> Throw("Illegal state switch " \o state \o "->" \o arg)]
         ELSE IF Throws(todo)
         THEN [state |-> arg, log |-> <<Call(todo, this, <<state, arg>>)>>,
               during |-> arg, ret |-> Undefined, err |-> Throw("thrown by handler")]
         ELSE [state |-> arg, log |-> <<Call(todo, this, <<state, arg>>)>>,
               during |-> arg, ret |-> this, err |-> NoErr]
    ELSE [state |-> state, log |-> <<>>, during |-> state, ret |-> this, err |-> NoErr]

\* the closure returned by run() of jRna.stickySM, called as this.closure(arg);
\* the result is the new state, the user calls made, the state that the
\* closure holds while the handler runs, the value returned, the error
smCall(action_hash, state, arg, this) ==
    IF arg = Undefined
    THEN [state |-> state, log |-> <<>>, during |-> state, ret |-> state, err |-> NoErr]
    ELSE IF arg # state
    THEN LET todo == Get(action_hash, arg) IN
         IF ~Truthy(todo)
         THEN [state |-> state, log |-> <<>>, during |-> state, ret |-> Undefined,
               err |-> Throw("Illegal state switch " \o state \o "->" \o arg)]
         ELSE IF Throws(todo)
         THEN [state |-> state, log |-> <<Call(todo, this, <<state, arg>>)>>,
               during |-> state, ret |-> Undefined, err |-> Throw("thrown by handler")]
         ELSE [state |-> arg, log |-> <<Call(todo, this, <<state, arg>>)>>,
               during |-> state, ret |-> this, err |-> NoErr]
    ELSE [state |-> state, log |-> <<>>, during |-> state, ret |-> this, err |-> NoErr]

\* a == b on the values of the model
LooseEq(a, b) == a = b \/ {a, b} \subseteq {"undefined", "null"}

\* the closure made by the initializer of stickyState in js/jrna.js
smCallJs(action_hash, state, arg, this) ==
    IF arg = Undefined
    THEN [state |-> state, log |-> <<>>, during |-> state, ret |-> state, err |-> NoErr]
    ELSE IF ~LooseEq(arg, state)
    THEN LET todo == Get(action_hash, arg) IN
         IF ~Truthy(todo)
         THEN [state |-> state, log |-> <<>>, during |-> state, ret |-> Undefined,
               err |-> blame("Illegal state switch " \o state \o "->" \o arg)]
         ELSE IF Throws(todo)
         THEN [state |-> state, log |-> <<Call(todo, this, <<state, arg>>)>>,
               during |-> state, ret |-> Undefined, err |-> Throw("thrown by handler")]
         ELSE [state |-> arg, log |-> <<Call(todo, this, <<state, arg>>)>>,
               during |-> state, ret |-> this, err |-> NoErr]
    ELSE [state |-> state, log |-> <<>>, during |-> state, ret |-> this, err |-> NoErr]

\* jRna.stickySM(action_hash, {initial}).run(), or the same closure as
\* js/jrna.js builds it (impl = "js")
\* the mutant: the state is kept by the runner, not by each closure of run()
NewMachine_Shared(impl, action_hash, initial) ==
    LET e == stickySM(action_hash, initial) IN
    /\ machines' = IF e.msg # "" THEN machines
                   ELSE Append(machines, [impl |-> impl, table |-> action_hash,
                                          initial |-> initial,
                                          state |-> IF machines = <<>> THEN initial
                                                    ELSE machines[1].state])
    /\ last' = [op |-> "stickySM", initial |-> initial, table |-> action_hash, err |-> e]
    /\ UNCHANGED <<meta, insts>>

\* jRna.stickySM(action_hash, {initial}).run()
NewMachine(impl, action_hash, initial) ==
    LET e == stickySM(action_hash, initial) IN
    /\ machines' = IF e.msg # "" THEN machines
                   ELSE Append(machines, [impl |-> impl, table |-> action_hash,
                                          initial |-> initial, state |-> initial])
    /\ last' = [op |-> "stickySM", initial |-> initial, table |-> action_hash, err |-> e]
    /\ UNCHANGED <<meta, insts>>

\* machine(arg), with the receiver this
CallMachine(m, arg, this) ==
    LET mc == machines[m]
        r  == IF mc.impl = "js" THEN smCallJs(mc.table, mc.state, arg, this)
              ELSE smCall(mc.table, mc.state, arg, this) IN
    /\ machines' = [machines EXCEPT ![m].state = r.state]
    /\ last' = [op |-> "machine", m |-> m, impl |-> mc.impl, arg |-> arg, this |-> this,
                before |-> mc.state, log |-> r.log, during |-> r.during,
                ret |-> r.ret, err |-> r.err]
    /\ UNCHANGED <<meta, insts>>

-----------------------------------------------------------------------------
(* The DOM subtree of a container.  Nodes are 1..n, node 1 is the root,    *)
(* parent[i] < i, siblings are in the order of their numbers; type is the  *)
(* nodeType (1 an Element, 3 a Text node); cls is the classList, a         *)
(* sequence of distinct tokens.                                            *)

\* the children of node p, first to last
RECURSIVE ChildrenFrom(_, _, _)
ChildrenFrom(tree, p, i) ==
    IF i > tree.n THEN <<>>
    ELSE (IF tree.parent[i] = p THEN <<i>> ELSE <<>>) \o ChildrenFrom(tree, p, i + 1)

\* walkTree(root, cb): the nodes in the order in which cb is called on them
RECURSIVE walkTree(_, _)
RECURSIVE walkEach(_, _)
walkEach(tree, kids) ==
    IF kids = <<>> THEN <<>>
    ELSE (IF tree.type[Head(kids)] = 1 THEN walkTree(tree, Head(kids)) ELSE <<>>)
         \o walkEach(tree, Tail(kids))
walkTree(tree, root) == <<root>> \o walkEach(tree, ChildrenFrom(tree, root, 1))

\* window.$(node) as a value
Node(k) == "$" \o ToString(k)

\* the mutant: a second element with a wanted class replaces the first
scanClass_LastWins(wanted, cls, elem, r) ==
    IF Failed(r) \/ cls = <<>> THEN r
    ELSE IF Head(cls) \notin Keys(wanted) THEN r
    ELSE [found |-> Put(r.found, Head(cls), Node(elem)), err |-> NoErr]

\* the loop over elem.classList in the callback of findClasses, one token
scanClass(wanted, cls, elem, r) ==
    IF Failed(r) \/ cls = <<>> THEN r
    ELSE IF Lookup(wanted, Head(cls)) = Undefined THEN r
    ELSE IF Truthy(Get(r.found, Head(cls)))
    THEN [found |-> r.found, err |-> Throw("Duplicate element with class " \o Head(cls))]
    ELSE [found |-> Put(r.found, Head(cls), Node(elem)), err |-> NoErr]

RECURSIVE scanClasses(_, _, _, _)
scanClasses(wanted, cls, elem, r) ==
    IF Failed(r) \/ cls = <<>> THEN r
    ELSE scanClasses(wanted, Tail(cls), elem, scanClass(wanted, cls, elem, r))

RECURSIVE scanNodes(_, _, _, _)
scanNodes(tree, wanted, nodes, r) ==
    IF Failed(r) \/ nodes = <<>> THEN r
    ELSE scanNodes(tree, wanted, Tail(nodes),
                   scanClasses(wanted, tree.cls[Head(nodes)], Head(nodes), r))

\* the loop that reports the first wanted class that was not found
RECURSIVE checkFound(_, _)
checkFound(wanted, r) ==
    IF Failed(r) \/ wanted = <<>> THEN r
    ELSE IF ~Truthy(Get(r.found, Head(wanted).key))
    THEN [found |-> r.found, err |-> blame("Failed to locate class " \o Head(wanted).key)]
    ELSE checkFound(Tail(wanted), r)

\* findClasses(root, wanted): [found |-> class -> node, err |-> ..]
findClasses(tree, wanted) ==
    checkFound(wanted, scanNodes(tree, wanted, walkTree(tree, 1),
                                 [found |-> EmptyObj, err |-> NoErr]))

-----------------------------------------------------------------------------
(* Bound instances.  An instance is held with the subtree it is bound to:  *)
(*   element    inst.element, receptor name -> node                        *)
(*   props      the data properties written on the instance                *)
(*   acc        the accessor properties defined by output/rawOutput/input  *)
(*   sm         the state each sticky-state closure closes over            *)
(*   text       the content of the nodes that a setter has written         *)
(*   vals       the value of the form controls that were written or typed  *)
(*   tog        the flag `on` each toggle handler closes over              *)
(*   listeners  the handlers attached to nodes, in the order of attaching  *)
(*   parent     what the container is a child of                           *)
(* Every container given to attach is a subtree of its own, with its own   *)
(* nodes: the content, values and listeners of its nodes are kept with the *)
(* instance.                                                               *)
(* While attach runs, it appends to a log what it invokes, in order.       *)

InstId(n) == "inst" \o ToString(n)

\* new jRna.Bound() up to the definition of inst.remove (lines 1054-1083)
NewBound(b, n, tree) ==
    [ id        |-> InstId(n),
      container |-> tree,
      element   |-> EmptyObj,
      props     |-> EmptyObj,
      acc       |-> EmptyObj,
      sm        |-> EmptyObj,
      text      |-> EmptyObj,
      vals      |-> EmptyObj,
      tog       |-> EmptyObj,
      objs      |-> EmptyObj,
      listeners |-> <<>>,
      parent    |-> "page",
      onRemove  |-> b.onRemove,
      attached  |-> FALSE ]

Ev(t, k, name, val, this, arguments) ==
    [t |-> t, k |-> k, name |-> name, val |-> val, this |-> this, args |-> arguments]

\* this.checkElement(element, action): the element given is [kind |-> "undefined", "other"
\* or "$", nodes |-> the subtrees selected]
checkElement(elem, action) ==
    IF elem.kind = "undefined"
    THEN [el |-> Undefined, err |-> blame("Cannot " \o action \o " a null element")]
    ELSE IF elem.kind # "$"
    THEN [el |-> Undefined, err |-> blame("Cannot " \o action \o " a non-$ object")]
    ELSE IF Len(elem.nodes) = 0
    THEN [el |-> Undefined, err |-> blame("Cannot " \o action \o " a missing element")]
    ELSE IF Len(elem.nodes) > 1
    THEN [el |-> Undefined, err |-> blame("Cannot " \o action \o " an ambiguous element")]
    ELSE [el |-> elem.nodes[1], err |-> NoErr]

\* selector[0].outerHTML: the markup of an element; a Text node, a comment
\* or the document have no such property
outerHTML(node) ==
    IF node.type[1] = 1 THEN [given |-> TRUE, str |-> <<node>>] ELSE [given |-> FALSE]

\* this.htmlFrom(selector)
htmlFrom(b, selector) ==
    LET c == checkElement(selector, "get HTML from") IN
    IF Failed(c) THEN [b |-> b, err |-> c.err] ELSE html(b, outerHTML(c.el))

\* inst[name]
\* what a node held when the container was given, its content or its value
Held(node) == "held:" \o node

\* element.text() / element.html(), element.val()
NodeText(inst, node) == IF node \in DOMAIN inst.text THEN inst.text[node] ELSE Held(node)

NodeVal(inst, node) == IF node \in DOMAIN inst.vals THEN inst.vals[node] ELSE Held(node)

\* the mutant: an input reads what was stored, as an output does
ReadProp_Stored(inst, name) ==
    IF name \in DOMAIN inst.acc THEN inst.acc[name].value ELSE Get(inst.props, name)

ReadProp(inst, name) ==
    IF name \in DOMAIN inst.acc
    THEN IF inst.acc[name].kind = "input" THEN NodeVal(inst, inst.acc[name].node)
         ELSE inst.acc[name].value
    ELSE Get(inst.props, name)

\* inst[name] = val: the setter of an accessor property, or a plain write
Assign(inst, name, val) ==
    IF name \in DOMAIN inst.acc
    THEN IF inst.acc[name].kind = "input"
         THEN [inst EXCEPT !.vals = Put(inst.vals, inst.acc[name].node, val)]
         ELSE [inst EXCEPT !.acc  = Put(inst.acc, name, [inst.acc[name] EXCEPT !.value = val]),
                           !.text = Put(inst.text, inst.acc[name].node, val)]
    ELSE [inst EXCEPT !.props = Put(inst.props, name, val)]

\* typeof v === 'string'
IsString(v) == v \notin Functions \cup {"undefined", "null", "true", "false"}

\* curry(item, spec): spec is the array [todo, ...preargs], a lone callback
\* being the array of itself; the result is the handler or the error
curry(spec) ==
    LET todo    == IF spec = <<>> THEN Undefined ELSE Head(spec)
        preargs == IF spec = <<>> THEN <<>> ELSE Tail(spec) IN
    IF IsString(todo)
    THEN [h |-> [named |-> TRUE, todo |-> todo, preargs |-> preargs], err |-> NoErr]
    ELSE IF IsFunction(todo)
    THEN [h |-> [named |-> FALSE, todo |-> todo, preargs |-> preargs], err |-> NoErr]
    ELSE [h |-> Undefined, err |-> blame("Unexpected callback argument")]

\* a run of attach, or of a handler: the instance, the log, the error thrown
Run(inst, log, err) == [inst |-> inst, log |-> log, err |-> err]

\* for (let cb of inst._onRemove) cb.bind(inst)(), from the k-th hook on
RECURSIVE runRemoveHooks(_, _)
runRemoveHooks(r, k) ==
    IF Failed(r) \/ k > Len(r.inst.onRemove) THEN r
    ELSE runRemoveHooks(
           Run(r.inst, Append(r.log, Ev("unhook", k, r.inst.onRemove[k], Undefined, r.inst.id, <<>>)),
               IF Throws(r.inst.onRemove[k]) THEN Throw("thrown by " \o r.inst.onRemove[k])
               ELSE NoErr),
           k + 1)

\* the mutant: the container is taken out before the hooks run
remove_DetachFirst(inst) ==
    LET r == runRemoveHooks(
               Run([inst EXCEPT !.parent = "none", !.listeners = <<>>],
                   <<Ev("detach", 0, Undefined, inst.parent, Undefined, <<>>)>>, NoErr), 1) IN
    r

\* inst.remove(): the hooks, then inst.container.remove(), which takes the
\* container out of its parent and drops the listeners of its nodes
remove(inst) ==
    LET r == runRemoveHooks(Run(inst, <<>>, NoErr), 1) IN
    IF Failed(r) THEN r
    ELSE Run([r.inst EXCEPT !.parent = "none", !.listeners = <<>>],
             Append(r.log, Ev("detach", 0, Undefined, inst.parent, Undefined, <<>>)), NoErr)

\* fn.apply(this, arguments) for the value fn found under inst[name];
\* inst.remove is the function that attach has defined
Invoke(r, name, this, arguments) ==
    LET fn == ReadProp(r.inst, name) IN
    IF name = "remove" /\ fn = Undefined
    THEN LET x == remove(r.inst) IN Run(x.inst, r.log \o x.log, x.err)
    ELSE IF fn = "closure"
    THEN LET c == smCall(r.inst.sm[name].table, r.inst.sm[name].state,
                         IF arguments = <<>> THEN Undefined ELSE Head(arguments), this) IN
         Run([r.inst EXCEPT !.sm = Put(r.inst.sm, name,
                                       [r.inst.sm[name] EXCEPT !.state = c.state])],
             r.log \o c.log, Located(c.err))
    ELSE IF IsFunction(fn)
    THEN Run(r.inst, Append(r.log, Call(fn, this, arguments)),
             IF Throws(fn) THEN Throw("thrown by " \o fn) ELSE NoErr)
    ELSE Run(r.inst, r.log, Throw("TypeError: " \o name \o " is not a function"))

\* action[1](inst, inst.element[action[0]]) for the k-th entry of _setup
runAction(b, r, k) ==
    LET id == b.setup[k].id
        a  == b.setup[k].action
        el == Get(r.inst.element, id)
        lg == Append(r.log, Ev("setup", k, id, el, Undefined, <<r.inst.id, el>>)) IN
    CASE a.kind \in {"output", "rawOutput", "input"} ->
           Run([r.inst EXCEPT !.acc = Put(r.inst.acc, a.name,
                                          [kind |-> a.kind, node |-> el, value |-> Undefined])],
               lg, NoErr)
      [] a.kind \in {"click", "stickyClick", "on"} ->
           IF Failed(curry(a.cb)) THEN Run(r.inst, lg, curry(a.cb).err)
           ELSE Run([r.inst EXCEPT !.listeners = Append(r.inst.listeners,
                        [node |-> el, event |-> IF a.kind = "on" THEN a.trigger ELSE "click",
                         k |-> k, kind |-> a.kind,
                         name |-> IF a.kind = "stickyClick" THEN a.name ELSE Undefined,
                         bound |-> curry(a.cb).h, off |-> curry(a.cb).h])],
                    lg, NoErr)
      [] a.kind = "toggle" ->
           IF Failed(curry(a.cb)) THEN Run(r.inst, lg, curry(a.cb).err)
           ELSE IF Failed(curry(a.off)) THEN Run(r.inst, lg, curry(a.off).err)
           ELSE Run([r.inst EXCEPT !.tog = Put(r.inst.tog, k, FALSE),
                                   !.listeners = Append(r.inst.listeners,
                        [node |-> el, event |-> "click", k |-> k, kind |-> a.kind,
                         name |-> Undefined,
                         bound |-> curry(a.cb).h, off |-> curry(a.off).h])],
                    lg, NoErr)
      [] a.kind = "element" -> Run(Assign(r.inst, a.name, el), lg, NoErr)
      [] a.kind = "upload" -> Run(Assign(r.inst, a.name, "uploader"), lg, NoErr)

\* the mutant: the setup actions run last to first
RECURSIVE runSetup_Reversed(_, _, _)
runSetup_Reversed(b, r, k) ==
    IF Failed(r) \/ k > Len(b.setup) THEN r
    ELSE runSetup_Reversed(b, runAction(b, r, Len(b.setup) + 1 - k), k + 1)

\* the mutant: the callbacks of all setup actions are tested before the
\* first action runs
RECURSIVE runSetup_CheckFirst(_, _, _)
runSetup_CheckFirst(b, r, k) ==
    IF Failed(r) \/ k > Len(b.setup) THEN r
    ELSE IF \E j \in k..Len(b.setup) :
               /\ b.setup[j].action.kind \in {"click", "stickyClick", "on", "toggle"}
               /\ \/ Failed(curry(b.setup[j].action.cb))
                  \/ b.setup[j].action.kind = "toggle" /\ Failed(curry(b.setup[j].action.off))
    THEN Run(r.inst, r.log, blame("Unexpected callback argument"))
    ELSE runSetup_CheckFirst(b, runAction(b, r, k), k + 1)

\* for (let action of meta._setup) ..., from the k-th entry on
RECURSIVE runSetup(_, _, _)
runSetup(b, r, k) ==
    IF Failed(r) \/ k > Len(b.setup) THEN r
    ELSE runSetup(b, runAction(b, r, k), k + 1)

\* the value an opaque user factory returns
Ret(f) == "ret:" \o f

\* inst[i] = meta._init[i].apply(inst, [args]) for the k-th entry of _init
\* the array or object that [...start] or {...start} makes for an instance
CopyOf(start, id) == "copy:" \o start \o ":" \o id

\* the entries of the object a value refers to: of a copy the instance
\* got, or of an object the blueprint's initializers hold
Contents(b, inst, o) == IF o \in DOMAIN inst.objs THEN inst.objs[o] ELSE Get(b.held, o)

runInitializer(b, r, arguments, k) ==
    LET i == b.init[k].key
        e == b.init[k].val IN
    CASE e.kind = "def" ->
           Run(Assign(r.inst, i, e.val),
               Append(r.log, Ev("init", k, i, e.val, r.inst.id, <<arguments>>)), NoErr)
      [] e.kind = "init" ->
           IF Throws(e.val)
           THEN Run(r.inst, Append(r.log, Ev("init", k, i, Undefined, r.inst.id, <<arguments>>)),
                    Throw("thrown by " \o e.val))
           ELSE Run(Assign(r.inst, i, Ret(e.val)),
                    Append(r.log, Ev("init", k, i, Ret(e.val), r.inst.id, <<arguments>>)), NoErr)
      [] e.kind \in {"initArray", "initObject"} ->
           Run(Assign([r.inst EXCEPT !.objs = Put(r.inst.objs, CopyOf(e.val, r.inst.id),
                                                  Get(b.held, e.val))],
                      i, CopyOf(e.val, r.inst.id)),
               Append(r.log, Ev("init", k, i, CopyOf(e.val, r.inst.id), r.inst.id,
                                <<arguments>>)), NoErr)
      [] e.kind = "stickyState" ->
           Run(Assign([r.inst EXCEPT !.sm = Put(r.inst.sm, i,
                                                [table |-> e.table, state |-> e.val])],
                      i, "closure"),
               Append(r.log, Ev("init", k, i, "closure", r.inst.id, <<arguments>>)), NoErr)

\* the mutant: a supplied argument suppresses the initializer of a method too
RECURSIVE runInit_SkipMethods(_, _, _, _)
runInit_SkipMethods(b, r, arguments, k) ==
    IF Failed(r) \/ k > Len(b.init) THEN r
    ELSE IF b.init[k].key \in Keys(arguments)
    THEN runInit_SkipMethods(b, r, arguments, k + 1)
    ELSE runInit_SkipMethods(b, runInitializer(b, r, arguments, k), arguments, k + 1)

\* for (let i in meta._init) ..., from the k-th entry on
RECURSIVE runInit(_, _, _, _)
runInit(b, r, arguments, k) ==
    IF Failed(r) \/ k > Len(b.init) THEN r
    ELSE IF ~Truthy(Get(b.isMethod, b.init[k].key)) /\ b.init[k].key \in Keys(arguments)
    THEN runInit(b, r, arguments, k + 1)
    ELSE runInit(b, runInitializer(b, r, arguments, k), arguments, k + 1)

\* the body of for (let key in args) for the k-th key
runArgument(b, r, arguments, k) ==
    LET key == arguments[k].key
        val == arguments[k].val IN
    IF ~Truthy(Get(b.allowArgs, key))
    THEN Run(r.inst, r.log, blame("unknown argument " \o key))
    ELSE IF ~Truthy(Get(b.assignArgs, key)) THEN r
    ELSE IF Truthy(Get(b.isMethod, key))
    THEN Invoke(Run(r.inst, Append(r.log, Ev("invoke", k, key, val, r.inst.id, <<>>)), NoErr),
                key, r.inst.id, <<val>>)
    ELSE Run(Assign(r.inst, key, val),
             Append(r.log, Ev("assign", k, key, val, r.inst.id, <<>>)), NoErr)

\* the mutant: a key that is not allowed is skipped, not refused
RECURSIVE runArgs_Lenient(_, _, _, _)
runArgs_Lenient(b, r, arguments, k) ==
    IF Failed(r) \/ k > Len(arguments) THEN r
    ELSE IF ~Truthy(Get(b.allowArgs, arguments[k].key))
    THEN runArgs_Lenient(b, r, arguments, k + 1)
    ELSE runArgs_Lenient(b, runArgument(b, r, arguments, k), arguments, k + 1)

\* for (let key in args) ..., from the k-th key on
RECURSIVE runArgs(_, _, _, _)
runArgs(b, r, arguments, k) ==
    IF Failed(r) \/ k > Len(arguments) THEN r
    ELSE runArgs(b, runArgument(b, r, arguments, k), arguments, k + 1)

\* meta._onAttach[k].bind(inst)(args)
runHook(b, r, arguments, k) ==
    Run(r.inst, Append(r.log, Ev("hook", k, b.onAttach[k], Undefined, r.inst.id, <<arguments>>)),
        IF Throws(b.onAttach[k]) THEN Throw("thrown by " \o b.onAttach[k]) ELSE NoErr)

\* the mutant: the attach hooks run although an earlier step has thrown
RECURSIVE runHooks_Anyway(_, _, _, _)
runHooks_Anyway(b, r, arguments, k) ==
    IF k > Len(b.onAttach) THEN r
    ELSE runHooks_Anyway(b, [runHook(b, r, arguments, k) EXCEPT !.err = r.err], arguments, k + 1)

\* for (let i in meta._onAttach) ..., from the k-th hook on
RECURSIVE runHooks(_, _, _, _)
runHooks(b, r, arguments, k) ==
    IF Failed(r) \/ k > Len(b.onAttach) THEN r
    ELSE runHooks(b, runHook(b, r, arguments, k), arguments, k + 1)

\* lines 1086-1089: resolve all wanted classes, fill inst.element
resolve(b, r) ==
    LET f == findClasses(r.inst.container, b.wanted) IN
    IF Failed(f) THEN Run(r.inst, r.log, f.err)
    ELSE Run([r.inst EXCEPT !.element =
                 [id \in {Lookup(b.wanted, cls) : cls \in DOMAIN f.found} |->
                     f.found[CHOOSE cls \in DOMAIN f.found : Lookup(b.wanted, cls) = id]]],
             r.log, NoErr)

\* the mutant: a receptor that does not resolve is reported after the setup
\* actions have run
attach_ResolveLate(b, n, container, arguments) ==
    LET c  == checkElement(container, "attach to")
        r1 == resolve(b, Run(NewBound(b, n, c.el), <<>>, NoErr))
        r2 == runSetup(b, [r1 EXCEPT !.err = NoErr], 1)
        r5 == runHooks(b, runArgs(b, runInit(b, r2, arguments, 1), arguments, 1), arguments, 1) IN
    IF Failed(c) THEN [made |-> <<>>, log |-> <<>>, err |-> c.err]
    ELSE IF Failed(r1) THEN [made |-> <<r2.inst>>, log |-> r2.log, err |-> r1.err]
    ELSE [made |-> <<[r5.inst EXCEPT !.attached = ~Failed(r5)]>>, log |-> r5.log, err |-> r5.err]

\* the mutant: the argument keys are checked before the setup actions run
attach_ArgsFirst(b, n, container, arguments) ==
    LET c  == checkElement(container, "attach to")
        r1 == resolve(b, Run(NewBound(b, n, c.el), <<>>, NoErr))
        r5 == runHooks(b, runArgs(b, runInit(b, runSetup(b, r1, 1), arguments, 1),
                                  arguments, 1), arguments, 1) IN
    IF Failed(c) THEN [made |-> <<>>, log |-> <<>>, err |-> c.err]
    ELSE IF ~Failed(r1) /\ \E k \in 1..Len(arguments) : ~Truthy(Get(b.allowArgs, arguments[k].key))
    THEN [made |-> <<r1.inst>>, log |-> <<>>,
          err |-> blame("unknown argument " \o
                        arguments[CHOOSE k \in 1..Len(arguments) :
                                     ~Truthy(Get(b.allowArgs, arguments[k].key))].key)]
    ELSE [made |-> <<[r5.inst EXCEPT !.attached = ~Failed(r5)]>>, log |-> r5.log, err |-> r5.err]

\* this.attach(container, args), the n-th call of it: the instance made (none
\* when the container is refused), the log, the error thrown
\* the mutant: the instance counts as attached whatever failed
attach_Regardless(b, n, container, arguments) ==
    LET c  == checkElement(container, "attach to")
        r5 == runHooks(b, runArgs(b, runInit(b, runSetup(b,
                 resolve(b, Run(NewBound(b, n, c.el), <<>>, NoErr)), 1), arguments, 1),
                 arguments, 1), arguments, 1) IN
    IF Failed(c) THEN [made |-> <<>>, log |-> <<>>, err |-> c.err]
    ELSE [made |-> <<[r5.inst EXCEPT !.attached = TRUE]>>, log |-> r5.log, err |-> r5.err]

attach(b, n, container, arguments) ==
    LET c  == checkElement(container, "attach to")
        r0 == Run(NewBound(b, n, c.el), <<>>, NoErr)
        r1 == resolve(b, r0)
        r2 == runSetup(b, r1, 1)
        r3 == runInit(b, r2, arguments, 1)
        r4 == runArgs(b, r3, arguments, 1)
        r5 == runHooks(b, r4, arguments, 1) IN
    IF Failed(c) THEN [made |-> <<>>, log |-> <<>>, err |-> c.err]
    ELSE [made |-> <<[r5.inst EXCEPT !.attached = ~Failed(r5)]>>, log |-> r5.log, err |-> r5.err]

\* the mutant: the template node itself is bound, not a copy of it
cloneNode_Same(node, n) == node

\* this._master.cloneNode(true), for the n-th instance
cloneNode(node, n) == Doc(node, "clone" \o ToString(n))

\* the mutant: without a template, an empty element is bound
instantiate_NoCheck(b, n, arguments) ==
    IF b.master = <<>>
    THEN LET r == attach(b, n, [kind |-> "$", nodes |->
                               <<[n |-> 1, parent |-> <<0>>, type |-> <<1>>,
                                  cls |-> << <<>> >>, doc |-> "none"]>>], arguments) IN
         [made |-> IF r.made = <<>> THEN <<>> ELSE <<[r.made[1] EXCEPT !.parent = "none"]>>,
          log |-> r.log, err |-> r.err]
    ELSE LET r == attach(b, n, [kind |-> "$", nodes |-> <<cloneNode(b.master[1], n)>>], arguments) IN
         [made |-> IF r.made = <<>> THEN <<>> ELSE <<[r.made[1] EXCEPT !.parent = "none"]>>,
          log |-> r.log, err |-> r.err]

\* this.instantiate(args): the copy of the template has no parent
instantiate(b, n, arguments) ==
    IF b.master = <<>>
    THEN [made |-> <<>>, log |-> <<>>, err |-> blame("Trying to instantiate with an empty html()")]
    ELSE CHOOSE x \in
           { [made |-> IF r.made = <<>> THEN <<>> ELSE <<[r.made[1] EXCEPT !.parent = "none"]>>,
              log |-> r.log, err |-> r.err] :
             r \in {attach(b, n, [kind |-> "$", nodes |-> <<cloneNode(b.master[1], n)>>],
                           arguments)} } : TRUE

-----------------------------------------------------------------------------
(* Declaration calls as steps.  A call that throws keeps what it had       *)
(* already written to the blueprint.                                       *)

\* a call of a declaration method that claims `name` under the tag `shared`
Declare(op, name, shared, r) ==
    /\ meta' = r.b
    /\ last' = [op |-> op, name |-> name, shared |-> shared, before |-> meta, err |-> r.err]
    /\ UNCHANGED <<insts, machines>>

Output(receptor) ==
    Declare("output",
            IF Failed(parseId(receptor)) THEN Undefined ELSE parseId(receptor).out[2],
            Undefined, output(meta, receptor))

Click(id, cb) == Declare("click", Undefined, Undefined, click(meta, id, cb))

StickyClick(id, name, cb) ==
    Declare("stickyClick", name, "stickyClick", stickyClick(meta, id, name, cb))

Element(receptor) ==
    Declare("element", parseId(receptor).out[2], Undefined, element(meta, receptor))

Def(name, initial) == Declare("def", name, Undefined, def(meta, name, initial))

InitDecl(name, action) ==
    Declare("init", name, Undefined, init(meta, name, [kind |-> "init", val |-> action]))

\* a declaration that is given an object o with the entries c
DeclareHeld(op, name, o, c, r) ==
    /\ meta' = [r.b EXCEPT !.held = Put(r.b.held, o, c)]
    /\ last' = [op |-> op, name |-> name, shared |-> Undefined, before |-> meta, err |-> r.err]
    /\ UNCHANGED <<insts, machines>>

DefObject(name, o, c) == DeclareHeld("def", name, o, c, def(meta, name, o))

InitArrayOf(name, o, c) == DeclareHeld("initArray", name, o, c, initArray(meta, name, o))

InitObjectOf(name, o, c) == DeclareHeld("initObject", name, o, c, initObject(meta, name, o))

InitArray(name, start) == Declare("initArray", name, Undefined, initArray(meta, name, start))

InitObject(name, start) == Declare("initObject", name, Undefined, initObject(meta, name, start))

StickyState(name, action_hash, initial) ==
    /\ meta' = stickyState(meta, name, action_hash, initial).b
    /\ last' = [op |-> "stickyState", name |-> name, shared |-> Undefined, before |-> meta,
                err |-> stickyState(meta, name, action_hash, initial).err,
                table |-> action_hash, initial |-> initial]
    /\ UNCHANGED <<insts, machines>>

AddArgument(name, spec) ==
    /\ meta' = addArgument(meta, name, spec).b
    /\ last' = [op |-> "addArgument", name |-> name, shared |-> Undefined, before |-> meta,
                err |-> addArgument(meta, name, spec).err, spec |-> spec]
    /\ UNCHANGED <<insts, machines>>

Args(list) ==
    /\ meta' = args(meta, list).b
    /\ last' = [op |-> "args", name |-> Undefined, shared |-> Undefined, before |-> meta,
                err |-> args(meta, list).err, list |-> list]
    /\ UNCHANGED <<insts, machines>>

OnAttach(fun) == Declare("onAttach", Undefined, Undefined, onAttach(meta, fun))

OnRemove(cb) == Declare("onRemove", Undefined, Undefined, onRemove(meta, cb))

RawOutput(receptor) ==
    Declare("rawOutput", parseId(receptor).out[2], Undefined, rawOutput(meta, receptor))

Input(receptor) ==
    Declare("input", parseId(receptor).out[2], Undefined, input(meta, receptor))

Toggle(id, cb_on, cb_off) ==
    Declare("toggle", Undefined, Undefined, toggle(meta, id, cb_on, cb_off))

On(trigger, id, cb) == Declare("on", Undefined, Undefined, on(meta, trigger, id, cb))

Upload(receptor) ==
    Declare("upload", parseId(receptor).out[2], Undefined, upload(meta, receptor))

Html(h) ==
    /\ meta' = html(meta, h).b
    /\ last' = [op |-> "html", name |-> Undefined, shared |-> Undefined, before |-> meta,
                err |-> html(meta, h).err, given |-> h.given]
    /\ UNCHANGED <<insts, machines>>

HtmlFrom(selector) ==
    \E r \in {htmlFrom(meta, selector)} :
    /\ meta' = r.b
    /\ last' = [op |-> "htmlFrom", name |-> Undefined, shared |-> Undefined, before |-> meta,
                err |-> r.err, selector |-> selector]
    /\ UNCHANGED <<insts, machines>>

-----------------------------------------------------------------------------
(* Binding, and what happens to an instance afterwards                     *)

\* meta.attach(container, args)
Attach(container, arguments) ==
    LET r == attach(meta, Len(insts) + 1, container, arguments) IN
    /\ insts' = insts \o r.made
    /\ last' = [op |-> "attach", container |-> container, args |-> arguments,
                made |-> Len(r.made), log |-> r.log, err |-> r.err]
    /\ UNCHANGED <<meta, machines>>

\* meta.attach(container, args) on a subtree in which the element `nested`
\* is the container of an instance of another blueprint
AttachAround(container, nested, arguments) ==
    \E r \in {attach(meta, Len(insts) + 1, container, arguments)} :
    /\ insts' = insts \o r.made
    /\ last' = [op |-> "attach", container |-> container, args |-> arguments,
                made |-> Len(r.made), log |-> r.log, err |-> r.err, nested |-> nested]
    /\ UNCHANGED <<meta, machines>>

\* the handler that click, stickyClick attached, called with the event:
\* bound(ev) for the curried callback
\* the mutant: the runtime arguments come first
callBound_ArgsLast(r, bound, ev) ==
    IF bound.named
    THEN Invoke(r, bound.todo, r.inst.id, <<ev>> \o bound.preargs)
    ELSE Run(r.inst, Append(r.log, Call(bound.todo, r.inst.id, <<ev>> \o bound.preargs)),
             IF Throws(bound.todo) THEN Throw("thrown by " \o bound.todo) ELSE NoErr)

callBound(r, bound, ev) ==
    IF bound.named
    THEN Invoke(r, bound.todo, r.inst.id, bound.preargs \o <<ev>>)
    ELSE Run(r.inst, Append(r.log, Call(bound.todo, r.inst.id, bound.preargs \o <<ev>>)),
             IF Throws(bound.todo) THEN Throw("thrown by " \o bound.todo) ELSE NoErr)

\* the mutant: a sticky click fires whatever the lock holds
runListener_Unlocked(r, l, ev) ==
    callBound(Run(Assign(r.inst, l.name, "true"),
                  Append(r.log, Ev("listener", l.k, l.name, ReadProp(r.inst, l.name),
                                   r.inst.id, <<>>)), NoErr),
              l.bound, ev)

\* the mutant: a toggle does not flip its flag, every activation is the first
\* the mutant: the flag is never flipped
runListener_NoFlip(r, l, ev) ==
    callBound(Run(r.inst, Append(r.log, Ev("listener", l.k, Undefined,
                                           IF l.kind = "toggle" THEN "true" ELSE Undefined,
                                           r.inst.id, <<>>)), NoErr),
              l.bound, ev)

\* the mutant: a sticky click sets its lock when the callback has returned
runListener_LockAfter(r, l, ev) ==
    IF l.kind = "stickyClick"
    THEN LET lock == ReadProp(r.inst, l.name)
             lg   == Append(r.log, Ev("listener", l.k, l.name, lock, r.inst.id, <<>>))
             c    == callBound(Run(r.inst, lg, NoErr), l.bound, ev) IN
         IF ~Truthy(lock)
         THEN IF Failed(c) THEN c ELSE Run(Assign(c.inst, l.name, "true"), c.log, NoErr)
         ELSE Run(r.inst, lg, NoErr)
    ELSE IF l.kind = "toggle"
    THEN LET flipped == ~r.inst.tog[l.k]
             lg      == Append(r.log, Ev("listener", l.k, Undefined,
                                         IF flipped THEN "true" ELSE "false", r.inst.id, <<>>)) IN
         callBound(Run([r.inst EXCEPT !.tog = Put(r.inst.tog, l.k, flipped)], lg, NoErr),
                   IF flipped THEN l.bound ELSE l.off, ev)
    ELSE callBound(Run(r.inst, Append(r.log, Ev("listener", l.k, Undefined, Undefined,
                                                r.inst.id, <<>>)), NoErr),
                   l.bound, ev)

\* one listener of a node receiving the event; the log notes the listener
\* and, for a sticky click, the lock it read, for a toggle, the flag it set
runListener(r, l, ev) ==
    IF l.kind = "stickyClick"
    THEN LET lock == ReadProp(r.inst, l.name)
             lg   == Append(r.log, Ev("listener", l.k, l.name, lock, r.inst.id, <<>>)) IN
         IF ~Truthy(lock)
         THEN callBound(Run(Assign(r.inst, l.name, "true"), lg, NoErr), l.bound, ev)
         ELSE Run(r.inst, lg, NoErr)
    ELSE IF l.kind = "toggle"
    THEN LET flipped == ~r.inst.tog[l.k]
             lg      == Append(r.log, Ev("listener", l.k, Undefined,
                                         IF flipped THEN "true" ELSE "false", r.inst.id, <<>>)) IN
         callBound(Run([r.inst EXCEPT !.tog = Put(r.inst.tog, l.k, flipped)], lg, NoErr),
                   IF flipped THEN l.bound ELSE l.off, ev)
    ELSE callBound(Run(r.inst, Append(r.log, Ev("listener", l.k, Undefined, Undefined,
                                                r.inst.id, <<>>)), NoErr),
                   l.bound, ev)

\* the listeners of `node` for `event`, in the order they were attached
RECURSIVE dispatch(_, _, _, _)
dispatch(r, ls, node, event) ==
    IF Failed(r) \/ ls = <<>> THEN r
    ELSE IF Head(ls).node = node /\ Head(ls).event = event
    THEN dispatch(runListener(r, Head(ls), "ev"), Tail(ls), node, event)
    ELSE dispatch(r, Tail(ls), node, event)

\* the host delivers `event` to a node of the subtree of instance i
Deliver(i, node, event) ==
    LET r == dispatch(Run(insts[i], <<>>, NoErr), insts[i].listeners, node, event) IN
    /\ insts' = [insts EXCEPT ![i] = r.inst]
    /\ last' = [op |-> "event", inst |-> i, node |-> node, event |-> event,
                log |-> r.log, err |-> r.err]
    /\ UNCHANGED <<meta, machines>>

\* the host, or the user: the value of a form control changes
Type(i, node, val) ==
    /\ insts' = [insts EXCEPT ![i].vals = Put(insts[i].vals, node, val)]
    /\ last' = [op |-> "type", inst |-> i, node |-> node, val |-> val]
    /\ UNCHANGED <<meta, machines>>

\* the mutant: the instance holds the blueprint's list of removal hooks
\* itself, not a copy of it
InstOnRemove_Shared(i, cb) ==
    /\ insts' = [j \in 1..Len(insts) |-> [insts[j] EXCEPT !.onRemove = Append(insts[j].onRemove, cb)]]
    /\ meta' = [meta EXCEPT !.onRemove = Append(meta.onRemove, cb)]
    /\ last' = [op |-> "inst.onRemove", inst |-> i, cb |-> cb]
    /\ UNCHANGED machines

\* inst.onRemove(cb): the appender that attach defines on the instance
InstOnRemove(i, cb) ==
    /\ insts' = [insts EXCEPT ![i].onRemove = Append(insts[i].onRemove, cb)]
    /\ last' = [op |-> "inst.onRemove", inst |-> i, cb |-> cb]
    /\ UNCHANGED <<meta, machines>>

Remove(i) ==
    LET r == remove(insts[i]) IN
    /\ insts' = [insts EXCEPT ![i] = r.inst]
    /\ last' = [op |-> "remove", inst |-> i, log |-> r.log, err |-> r.err]
    /\ UNCHANGED <<meta, machines>>

\* inst.appendTo(element)
instAppendTo(inst, elem) ==
    LET c == checkElement(elem, "append to") IN
    IF Failed(c) THEN Run(inst, <<>>, c.err)
    ELSE Run([inst EXCEPT !.parent = c.el], <<>>, NoErr)

InstAppendTo(i, elem) ==
    LET r == instAppendTo(insts[i], elem) IN
    /\ insts' = [insts EXCEPT ![i] = r.inst]
    /\ last' = [op |-> "inst.appendTo", inst |-> i, target |-> elem, err |-> r.err]
    /\ UNCHANGED <<meta, machines>>

\* the mutant: the parent is validated before anything is instantiated
appendTo_CheckFirst(b, n, elem, arguments) ==
    LET c == checkElement(elem, "append to")
        r == instantiate(b, n, arguments) IN
    IF Failed(c) THEN [made |-> <<>>, log |-> <<>>, err |-> c.err]
    ELSE IF Failed(r) THEN r
    ELSE [made |-> <<[r.made[1] EXCEPT !.parent = c.el]>>, log |-> r.log, err |-> NoErr]

\* this.appendTo(element, args): instantiate(args).appendTo(element)
appendTo(b, n, elem, arguments) ==
    CHOOSE x \in { IF Failed(r) THEN r
                   ELSE [made |-> <<instAppendTo(r.made[1], elem).inst>>, log |-> r.log,
                         err |-> instAppendTo(r.made[1], elem).err] :
                   r \in {instantiate(b, n, arguments)} } : TRUE

\* meta.instantiate(args)
Instantiate(arguments) ==
    \E r \in {instantiate(meta, Len(insts) + 1, arguments)} :
    /\ insts' = insts \o r.made
    /\ last' = [op |-> "instantiate", args |-> arguments,
                made |-> Len(r.made), log |-> r.log, err |-> r.err]
    /\ UNCHANGED <<meta, machines>>

\* meta.appendTo(element, args)
AppendTo(elem, arguments) ==
    \E r \in {appendTo(meta, Len(insts) + 1, elem, arguments)} :
    /\ insts' = insts \o r.made
    /\ last' = [op |-> "appendTo", target |-> elem, args |-> arguments,
                made |-> Len(r.made), log |-> r.log, err |-> r.err,
                returned |-> IF Failed(r) THEN <<>> ELSE <<r.made[1].id>>]
    /\ UNCHANGED <<meta, machines>>

\* user code: inst.name(...arguments)
CallMethod(i, name, arguments) ==
    LET r == Invoke(Run(insts[i], <<>>, NoErr), name, insts[i].id, arguments) IN
    /\ insts' = [insts EXCEPT ![i] = r.inst]
    /\ last' = [op |-> "method", inst |-> i, name |-> name, args |-> arguments,
                log |-> r.log, err |-> r.err]
    /\ UNCHANGED <<meta, machines>>

\* user code: inst.name = val
\* inst[name].push(e), .pop(), inst[name][0] = e and the like: the object
\* that the property refers to gets the entries c
MutateVia(i, name, c) ==
    LET o == ReadProp(insts[i], name) IN
    /\ IF o \in DOMAIN insts[i].objs
       THEN /\ insts' = [insts EXCEPT ![i].objs = Put(insts[i].objs, o, c)]
            /\ meta' = meta
       ELSE /\ o \in DOMAIN meta.held
            /\ meta' = [meta EXCEPT !.held = Put(meta.held, o, c)]
            /\ insts' = insts
    /\ last' = [op |-> "mutate", inst |-> i, name |-> name, val |-> c]
    /\ UNCHANGED machines

\* the same on the object that was given to the declaration
MutateHeld(o, c) ==
    /\ meta' = [meta EXCEPT !.held = Put(meta.held, o, c)]
    /\ last' = [op |-> "mutate", inst |-> 0, name |-> o, val |-> c]
    /\ UNCHANGED <<insts, machines>>

SetProp(i, name, val) ==
    /\ insts' = [insts EXCEPT ![i] = Assign(insts[i], name, val)]
    /\ last' = [op |-> "set", inst |-> i, name |-> name, val |-> val]
    /\ UNCHANGED <<meta, machines>>

-----------------------------------------------------------------------------
(* Inputs                                                                  *)

\* a callback specification as curry reads it: [todo, ...preargs]
Fn(f) == <<f>>

\* the transition table of the sticky state declarations: state -> handler
Table == [s \in {"s", "t"} |-> IF s = "s" THEN "onS" ELSE "onT"]

Init ==
    /\ meta = NewBlueprint
    /\ insts = <<>>
    /\ machines = <<>>
    /\ last = [op |-> "new"]
    /\ calls = 0

-----------------------------------------------------------------------------
(* The declarations of a blueprint, in any order                           *)

MaxDecl == 3

DeclNames == {"a", "lock", "id"}

ArgSpecs == { [forbidden |-> "true", assign |-> Undefined],
              [forbidden |-> Undefined, assign |-> "true"],
              [forbidden |-> Undefined, assign |-> Undefined] }

\* no more than MaxDecl declaration calls are made on the blueprint
MoreDecl == calls < MaxDecl /\ calls' = calls + 1

NextDecl ==
    \/ \E r \in {<<"a">>, <<"b">>, <<"b", "lock">>} : MoreDecl /\ Output(r)
    \/ \E n \in DeclNames : MoreDecl /\ StickyClick("a", n, Fn("f"))
    \/ \E r \in {<<"a">>, <<"b", "lock">>} : MoreDecl /\ Element(r)
    \/ \E n \in DeclNames, v \in {"v1", "f"} : MoreDecl /\ Def(n, v)
    \/ \E n \in DeclNames : MoreDecl /\ InitDecl(n, "g")
    \/ \E n \in DeclNames, i \in {Undefined, "s", "zz"} : MoreDecl /\ StickyState(n, Table, i)
    \/ \E n \in DeclNames, sp \in ArgSpecs : MoreDecl /\ AddArgument(n, sp)
    \/ \E l \in {<<"a">>, <<"lock", "id">>} : MoreDecl /\ Args(l)

SpecDecl == Init /\ [][NextDecl]_vars

-----------------------------------------------------------------------------
(* C2. Name registry: a declaration that claims a name fails with          *)
(* 'Property name already in use' exactly when the name is already claimed *)
(* under a tag different from its own (an untagged claim is exclusive);    *)
(* when the name is unclaimed, or claimed under the identical tag, the     *)
(* claim is accepted and the name is registered under the tag.             *)

ClaimsName == last.op \in {"output", "stickyClick", "element", "def", "init", "stickyState"}

\* the call reached lockName: its receptor parsed, its initial state is legal
ReachedLock == last.err.msg \notin {"Illegal initial state: zz",
                                    "jRna receptor must be a string or 2-element array"}

Conflict == /\ Truthy(Get(last.before.known, last.name))
            /\ Get(last.before.known, last.name) # last.shared

C2_NameRegistry ==
    (ClaimsName /\ ReachedLock) =>
        /\ Conflict <=> last.err.msg = "Property name already in use: " \o last.name
        /\ Conflict => meta.known = last.before.known
        /\ ~Conflict => Get(meta.known, last.name) =
                            (IF Truthy(last.shared) THEN last.shared ELSE "true")
        /\ (~Conflict /\ last.op \in {"output", "stickyClick", "def", "init", "stickyState"})
               => ~Failed(last)

\* a second stickyClick on the same lock name was accepted
C2_Witness ==
    /\ last.op = "stickyClick"
    /\ Get(last.before.known, last.name) = "stickyClick"
    /\ ~Failed(last)
    /\ Len(meta.setup) = 2

-----------------------------------------------------------------------------
(* Sticky state machines on their own                                      *)

MaxMachines == 2

\* state -> handler; the handler of "u" throws
SMTable == [s \in {"s", "t", "u"} |->
               IF s = "s" THEN "onS" ELSE IF s = "t" THEN "onT" ELSE "boom"]

SMArgs == {Undefined, "null", "s", "t", "u", "zz"}

NextSM ==
    \/ \E impl \in {"docs", "js"}, i \in {Undefined, "s", "zz"} :
          Len(machines) < MaxMachines /\ NewMachine(impl, SMTable, i) /\ UNCHANGED calls
    \/ \E m \in 1..Len(machines), a \in SMArgs, this \in {Undefined, "obj"} :
          CallMachine(m, a, this) /\ UNCHANGED calls

SpecSM == Init /\ [][NextSM]_vars

\* the last call was machine(arg) with an argument, hence not the getter
Switch == last.op = "machine" /\ last.arg # Undefined

\* the argument counts as the current state (== in js/jrna.js, === in the page)
SameState == IF last.impl = "js" THEN LooseEq(last.arg, last.before)
             ELSE last.arg = last.before

Declared(mc, st) == st \in DOMAIN mc.table

(* C3. Sticky state machine transitions: a call with no argument returns   *)
(* the state, a call with the current state returns the receiver, and      *)
(* neither runs a handler or changes the state; a call with a declared     *)
(* state different from the current one runs the handler of that state     *)
(* once, with (oldState, newState) and the caller's receiver, and, the     *)
(* handler having returned, the state is newState and the receiver is      *)
(* returned.  No call runs more than one handler, and a handler runs only  *)
(* in a call that asks for a state other than the current one.             *)
C3_Transitions ==
    last.op = "machine" =>
      LET mc == machines[last.m] IN
        /\ last.arg = Undefined =>
              /\ last.log = <<>> /\ mc.state = last.before
              /\ last.ret = last.before /\ ~Failed(last)
        /\ (Switch /\ last.arg = last.before) =>
              /\ last.log = <<>> /\ mc.state = last.before
              /\ last.ret = last.this /\ ~Failed(last)
        /\ (Switch /\ last.arg # last.before /\ Declared(mc, last.arg)) =>
              /\ last.log = <<Call(mc.table[last.arg], last.this, <<last.before, last.arg>>)>>
              /\ ~Throws(mc.table[last.arg]) =>
                    (mc.state = last.arg /\ last.ret = last.this /\ ~Failed(last))
        /\ Len(last.log) <= 1
        /\ last.log # <<>> => (Switch /\ last.arg # last.before)

\* a transition s -> t ran onT once on a machine that was in state s
C3_Witness ==
    /\ last.op = "machine" /\ last.before = "s" /\ last.arg = "t"
    /\ last.log = <<Call("onT", "obj", <<"s", "t">>)>>
    /\ machines[last.m].state = "t"

-----------------------------------------------------------------------------
(* Containers                                                              *)

MaxNodes == 3

\* class lists: wanted classes, one twice over two tokens, and classes
\* that no declaration names
ClassLists == { <<>>, <<"jrna-a">>, <<"jrna-b">>, <<"jrna-b", "jrna-a">>, <<"a", "jrna-a">> }

\* the subtrees of n nodes: the root is an Element, a Text node has no
\* children and no classes
Parents(n) == { p \in [1..n -> 0..n] : p[1] = 0 /\ \A i \in 2..n : p[i] \in 1..(i - 1) }

Types(n, p) == { t \in [1..n -> {1, 3}] : t[1] = 1 /\ \A i \in 2..n : t[p[i]] = 1 }

Classes(n, t) == { c \in [1..n -> ClassLists] : \A i \in 1..n : t[i] = 3 => c[i] = <<>> }

TreesOf(n) ==
    UNION { UNION { { [n |-> n, parent |-> p, type |-> t, cls |-> c] : c \in Classes(n, t) }
                    : t \in Types(n, p) }
            : p \in Parents(n) }

Trees == UNION { TreesOf(n) : n \in 1..MaxNodes }

\* $(..) selecting exactly this subtree
One(tree) == [kind |-> "$", nodes |-> <<tree>>]

-----------------------------------------------------------------------------
(* Resolution of receptors: a blueprint of a few declarations over the     *)
(* receptors a and b is attached once to any small subtree.                *)

MaxSetup == 2

Building == insts = <<>>

MoreSetup == Building /\ Len(meta.setup) < MaxSetup /\ UNCHANGED calls

NextResolve ==
    \/ MoreSetup /\ Output(<<"a">>)
    \/ \E id \in {"a", "b"} : MoreSetup /\ Click(id, Fn("f"))
    \/ Building /\ \E tree \in Trees : Attach(One(tree), <<>>) /\ UNCHANGED calls

SpecResolve == Init /\ [][NextResolve]_vars

\* how many elements of the subtree carry the class
Carriers(tree, cls) ==
    { k \in 1..tree.n : tree.type[k] = 1 /\ \E j \in 1..Len(tree.cls[k]) : tree.cls[k][j] = cls }

WantedClasses == { prefix \o meta.setup[k].id : k \in 1..Len(meta.setup) }

Attached == last.op = "attach" /\ last.made = 1

Subtree == last.container.nodes[1]

-----------------------------------------------------------------------------
(* The steps of attach: a blueprint of setup actions on the receptors a    *)
(* and b, a property p that may be given as an argument, and attach hooks  *)
(* is attached once, to a container that may be refused or lack b, with    *)
(* arguments that may hold the undeclared key zz.                          *)

MaxHooks == 2

\* <div><span class="jrna-a"/><span class="jrna-b"/></div>
TreeAB == [n |-> 3, parent |-> <<0, 1, 1>>, type |-> <<1, 1, 1>>,
           cls |-> << <<>>, <<"jrna-a">>, <<"jrna-b">> >>]

\* <div class="jrna-a"></div>
TreeA == [n |-> 1, parent |-> <<0>>, type |-> <<1>>, cls |-> << <<"jrna-a">> >>]

\* <div><span class="jrna-a"/><span class="jrna-a jrna-b"/></div>
TreeDup == [n |-> 3, parent |-> <<0, 1, 1>>, type |-> <<1, 1, 1>>,
            cls |-> << <<>>, <<"jrna-a">>, <<"jrna-a", "jrna-b">> >>]

Containers == { [kind |-> "undefined", nodes |-> <<>>], One(TreeAB), One(TreeA), One(TreeDup),
                [kind |-> "$", nodes |-> <<TreeAB, TreeA>>] }

Arg(key, val) == [key |-> key, val |-> val]

AttachArgs == { <<>>, <<Arg("p", "v2")>>, <<Arg("zz", "v2")>>, <<Arg("p", "v2"), Arg("zz", "v2")>> }

MoreHooks == Building /\ Len(meta.onAttach) < MaxHooks /\ UNCHANGED calls

NextAttach ==
    \/ MoreSetup /\ Output(<<"a">>)
    \/ \E cb \in {Fn("f"), <<>>} : MoreSetup /\ Click("b", cb)
    \/ Building /\ Def("p", "v1") /\ UNCHANGED calls
    \/ Building /\ Args(<<"p">>) /\ UNCHANGED calls
    \/ \E h \in {"h1", "h2"} : MoreHooks /\ OnAttach(h)
    \/ Building /\ \E c \in Containers, a \in AttachArgs : Attach(c, a) /\ UNCHANGED calls

SpecAttach == Init /\ [][NextAttach]_vars

IsSetupEv(e) == e.t = "setup"

IsHookEv(e) == e.t = "hook"

SetupEvs == SelectSeq(last.log, IsSetupEv)

HookEvs == SelectSeq(last.log, IsHookEv)

TheInst == insts[Len(insts)]

\* the setup action that threw, if one did: the k-th needs a callback and has none
BadAction(k) ==
    meta.setup[k].action.kind = "click" /\ meta.setup[k].action.cb = <<>>

\* how many setup actions attach gets to run: all, or up to the first that throws
SetupRun ==
    IF \E k \in 1..Len(meta.setup) : BadAction(k)
    THEN CHOOSE k \in 1..Len(meta.setup) : BadAction(k) /\ \A j \in 1..(k - 1) : ~BadAction(j)
    ELSE Len(meta.setup)

Resolved == \A k \in 1..Len(meta.setup) : Cardinality(Carriers(Subtree, prefix \o meta.setup[k].id)) = 1

(* C6. Setup actions: an attach call that has resolved its receptors runs  *)
(* the queued setup actions in the order of their declaration, each once,  *)
(* each with the new instance and the element resolved for its receptor    *)
(* (up to the first action that throws, if one does).                      *)
C6_SetupOrder ==
    Attached /\ Resolved =>
      /\ Len(SetupEvs) = SetupRun
      /\ \A k \in 1..Len(SetupEvs) :
           /\ SetupEvs[k] = last.log[k]
           /\ SetupEvs[k].k = k
           /\ SetupEvs[k].name = meta.setup[k].id
           /\ SetupEvs[k].args = <<InstId(Len(insts)), TheInst.element[meta.setup[k].id]>>
           /\ \E n \in Carriers(Subtree, prefix \o meta.setup[k].id) :
                TheInst.element[meta.setup[k].id] = Node(n)
      /\ \A i, j \in 1..Len(TheInst.listeners) :
           i < j => TheInst.listeners[i].k < TheInst.listeners[j].k

\* two different actions on two receptors have run, first the first
C6_Witness ==
    /\ Attached /\ ~Failed(last)
    /\ Len(SetupEvs) = 2
    /\ SetupEvs[1].name = "b" /\ SetupEvs[2].name = "a"
    /\ SetupEvs[1].args = <<"inst1", Node(3)>>
    /\ SetupEvs[2].args = <<"inst1", Node(2)>>

\* the steps of the log that are not attach hooks
IsStepEv(e) == e.t \in {"setup", "init", "invoke", "assign"}

StepEvs == SelectSeq(last.log, IsStepEv)

\* the keys of the arguments that attach writes or passes to a method
Applied == { k \in 1..Len(last.args) : Truthy(Get(meta.assignArgs, last.args[k].key)) }

\* the initializers that attach runs
Initialized ==
    { k \in 1..Len(meta.init) :
        Truthy(Get(meta.isMethod, meta.init[k].key)) \/ meta.init[k].key \notin Keys(last.args) }

(* C7. Attach hooks: in a successful attach every hook registered with     *)
(* onAttach runs once, in the order of registration, its receiver the      *)
(* instance and its argument the argument object, after every setup        *)
(* action, initializer and argument assignment of that attach.  When       *)
(* attach fails at the container check, at receptor resolution, in a setup *)
(* action or on an unknown argument, no hook runs.                         *)
C7_AttachHooks ==
    /\ last.op = "attach" /\ last.made = 0 => Failed(last) /\ last.log = <<>>
    /\ Attached /\ Failed(last) => HookEvs = <<>>
    /\ Attached /\ ~Failed(last) =>
         /\ Len(HookEvs) = Len(meta.onAttach)
         /\ \A k \in 1..Len(HookEvs) :
              HookEvs[k] = Ev("hook", k, meta.onAttach[k], Undefined, InstId(Len(insts)), <<last.args>>)
         /\ last.log = StepEvs \o HookEvs
         /\ Cardinality({ i \in 1..Len(StepEvs) : StepEvs[i].t = "setup" }) = Len(meta.setup)
         /\ Cardinality({ i \in 1..Len(StepEvs) : StepEvs[i].t = "init" }) = Cardinality(Initialized)
         /\ Cardinality({ i \in 1..Len(StepEvs) : StepEvs[i].t \in {"invoke", "assign"} })
              = Cardinality(Applied)

\* two hooks have run, after a setup action, an initializer and an assignment
C7_Witness ==
    /\ Attached /\ ~Failed(last)
    /\ Len(HookEvs) = 2 /\ HookEvs[1].name # HookEvs[2].name
    /\ \E i, j \in 1..Len(StepEvs) : StepEvs[i].t = "setup" /\ StepEvs[j].t = "assign"

\* attach threw 'unknown argument'
UnknownArgument == Attached /\ \E k \in 1..Len(last.args) : last.err.msg = "unknown argument " \o last.args[k].key

\* C9 as it is stated: when attach fails on an undeclared argument key, no
\* setup action has had an effect: no property is installed on the
\* instance, no listener is attached to a node of the container
C9_NoEffects ==
    UnknownArgument =>
      /\ SetupEvs = <<>>
      /\ TheInst.listeners = <<>>
      /\ DOMAIN TheInst.acc = {}

(* C9. An argument key that was not declared allowed makes attach fail     *)
(* with 'unknown argument', without returning the instance and without     *)
(* running an attach hook; but the key is checked after the setup actions, *)
(* the initializers and the assignment of the keys before it: every setup  *)
(* action has run, and the listeners and properties they installed stay.   *)
C9_FailsAfterSetup ==
    /\ Attached /\ (\E k \in 1..Len(last.args) : ~Truthy(Get(meta.allowArgs, last.args[k].key)))
         => Failed(last) /\ ~TheInst.attached /\ HookEvs = <<>>
    /\ UnknownArgument =>
         /\ Len(SetupEvs) = Len(meta.setup)
         /\ \A k \in 1..Len(meta.setup) :
              /\ meta.setup[k].action.kind = "click" =>
                   \E i \in 1..Len(TheInst.listeners) :
                      /\ TheInst.listeners[i].k = k
                      /\ TheInst.listeners[i].node = TheInst.element[meta.setup[k].id]
              /\ meta.setup[k].action.kind = "output" =>
                   meta.setup[k].action.name \in DOMAIN TheInst.acc
         /\ \A k \in 1..Len(last.args) :
              last.err.msg = "unknown argument " \o last.args[k].key
                => \A j \in 1..(k - 1) : ReadProp(TheInst, last.args[j].key) = last.args[j].val

\* attach has failed on the key zz with a listener and a property set up,
\* an earlier key assigned, and a hook waiting
C9_Witness ==
    /\ UnknownArgument
    /\ Len(TheInst.listeners) = 1
    /\ DOMAIN TheInst.acc # {}
    /\ ReadProp(TheInst, "p") = "v2"
    /\ meta.onAttach # <<>>

-----------------------------------------------------------------------------
(* Initializers and arguments: the names p and q are declared as values,   *)
(* methods, factories or sticky states and as arguments, assignable or     *)
(* not; the blueprint is attached once with up to MaxArgs of the keys p,   *)
(* q, id and the undeclared zz.                                            *)

MaxInit == 2

MaxArgs == 2

ArgKeys == {"p", "q", "id", "zz"}

\* the value given under a key: for p and q a state of Table
ArgVal(key) == IF key \in {"p", "q"} THEN "t" ELSE "v2"

\* argument objects: their keys, distinct, in the order of insertion
ArgObjsOf(n) ==
    { [k \in 1..n |-> Arg(ks[k], ArgVal(ks[k]))] :
        ks \in { f \in [1..n -> ArgKeys] : \A i, j \in 1..n : i # j => f[i] # f[j] } }

ArgObjs == UNION { ArgObjsOf(n) : n \in 0..MaxArgs }

MoreInit == Building /\ Len(meta.init) < MaxInit /\ UNCHANGED calls

NextArgs ==
    \/ \E n \in {"p", "q"}, v \in {"v1", "f"} : MoreInit /\ Def(n, v)
    \/ \E n \in {"p", "q"} : MoreInit /\ InitDecl(n, "g")
    \/ \E n \in {"p", "q"} : MoreInit /\ StickyState(n, Table, "s")
    \/ \E n \in {"p", "q"} : Building /\ Args(<<n>>) /\ UNCHANGED calls
    \/ \E n \in {"p", "q"} :
          Building /\ AddArgument(n, [forbidden |-> Undefined, assign |-> Undefined])
                   /\ UNCHANGED calls
    \/ Building /\ \E a \in ArgObjs : Attach(One(TreeA), a) /\ UNCHANGED calls

SpecArgs == Init /\ [][NextArgs]_vars

IsArgEv(e) == e.t \in {"invoke", "assign"}

ArgEvs == SelectSeq(last.log, IsArgEv)

IsInitEv(e) == e.t = "init"

InitEvs == SelectSeq(last.log, IsInitEv)

Allowed(key) == Truthy(Get(meta.allowArgs, key))

Assignable(key) == Truthy(Get(meta.assignArgs, key))

Method(key) == Truthy(Get(meta.isMethod, key))

\* what the instance holds under a method name is something to call
Callable(key) == ReadProp(TheInst, key) \in Functions \cup {"closure"}

\* the k-th key is reached: the keys before it are allowed, and those of
\* them that are methods could be called
Reached(k) ==
    \A j \in 1..(k - 1) :
       /\ Allowed(last.args[j].key)
       /\ Assignable(last.args[j].key) /\ Method(last.args[j].key) => Callable(last.args[j].key)

\* the events of the log that the k-th key has made
EvsOf(k) == { i \in 1..Len(ArgEvs) : ArgEvs[i].k = k }

Skipped(k) == ~Method(meta.init[k].key) /\ meta.init[k].key \in Keys(last.args)

\* what the initializer of the k-th declared name yields
Yield(k) ==
    CASE meta.init[k].val.kind = "def" -> meta.init[k].val.val
      [] meta.init[k].val.kind = "init" -> Ret(meta.init[k].val.val)
      [] meta.init[k].val.kind = "stickyState" -> "closure"

-----------------------------------------------------------------------------
(* Clicks: sticky clicks guarded by the property lock, and a plain click,  *)
(* are declared on the receptors a and b; the blueprint is attached, with  *)
(* or without an initial lock; then nodes are clicked and the lock is      *)
(* assigned, in any order.                                                 *)

MaxInst == 1

LockVals == {"false", "true", "", "v1"}

NextClick ==
    \/ \E id \in {"a", "b"} : MoreSetup /\ StickyClick(id, "lock", Fn("f"))
    \/ MoreSetup /\ Click("a", Fn("g"))
    \/ Building /\ Args(<<"lock">>) /\ UNCHANGED calls
    \/ \E a \in {<<>>, <<Arg("lock", "true")>>} :
          Len(insts) < MaxInst /\ Attach(One(TreeAB), a) /\ UNCHANGED calls
    \/ \E i \in 1..Len(insts), n \in 2..3 : Deliver(i, Node(n), "click") /\ UNCHANGED calls
    \/ \E i \in 1..Len(insts), v \in LockVals : SetProp(i, "lock", v) /\ UNCHANGED calls

SpecClick == Init /\ [][NextClick]_vars

\* the sticky-click listeners of instance inst on the node
Stickies(inst, node) ==
    { i \in 1..Len(inst.listeners) :
        inst.listeners[i].kind = "stickyClick" /\ inst.listeners[i].node = node }

\* the calls of the sticky-click callback in a log
StickyCalls(log) == { j \in 1..Len(log) : log[j] = Call("f", log[j].this, <<"ev">>) }

\* within one activation: a sticky-click listener calls cb exactly when it
\* reads a falsy lock, and the lock is true when cb is called
C5_Listener ==
    last.op = "event" =>
      \A j \in 1..Len(last.log) :
         last.log[j].t = "listener" /\ last.log[j].name = "lock" =>
            /\ Truthy(last.log[j].val) => j + 1 \notin StickyCalls(last.log)
            /\ ~Truthy(last.log[j].val) =>
                 /\ j + 1 \in StickyCalls(last.log)
                 /\ last.log[j + 1].this = InstId(last.inst)
                 /\ ReadProp(insts[last.inst], "lock") = "true"

\* an activation of a node with a sticky click calls cb, once, exactly when
\* the lock is falsy before it, and leaves the lock true
C5_Activation ==
    \A i \in 1..Len(insts), n \in 2..3 :
       last'.op = "event" /\ last'.inst = i /\ last'.node = Node(n) /\ i \in 1..Len(insts')
       /\ Stickies(insts[i], Node(n)) # {} =>
          /\ Truthy(ReadProp(insts[i], "lock")) =>
               /\ StickyCalls(last'.log) = {}
               /\ ReadProp(insts'[i], "lock") = ReadProp(insts[i], "lock")
          /\ ~Truthy(ReadProp(insts[i], "lock")) =>
               /\ Cardinality(StickyCalls(last'.log)) = 1
               /\ ReadProp(insts'[i], "lock") = "true"

\* an activation straight after one that called cb does not call it
C5_Twice ==
    last.op = "event" /\ StickyCalls(last.log) # {} /\ last'.op = "event" /\ last'.inst = last.inst
      => StickyCalls(last'.log) = {}

\* an activation straight after the lock was assigned false calls cb
C5_Reset ==
    \A i \in 1..Len(insts), n \in 2..3 :
       last.op = "set" /\ last.inst = i /\ last.val = "false"
       /\ last'.op = "event" /\ last'.inst = i /\ last'.node = Node(n)
       /\ Stickies(insts[i], Node(n)) # {}
         => Cardinality(StickyCalls(last'.log)) = 1

(* C5. stickyClick(id, lock, cb): over any sequence of activations and     *)
(* assignments of the lock on an instance, an activation invokes cb        *)
(* exactly when the lock is falsy at that moment, and the invocation sets  *)
(* the lock to true.  So of two activations in immediate succession the    *)
(* second does not invoke cb, and after the lock is reset to false the     *)
(* next activation invokes cb again.                                       *)
C5_StickyClick ==
    /\ []C5_Listener
    /\ [][C5_Activation /\ C5_Twice /\ C5_Reset]_vars

\* cb has fired on a click that followed a reset of the lock
C5_Witness ==
    /\ last.op = "event"
    /\ StickyCalls(last.log) # {}
    /\ \E j \in 1..Len(last.log) : last.log[j].t = "listener" /\ last.log[j].val = "false"

-----------------------------------------------------------------------------
\* nothing has been installed on the instance or on the nodes of its subtree
Pristine(inst) ==
    /\ inst.listeners = <<>>
    /\ DOMAIN inst.acc = {} /\ DOMAIN inst.props = {} /\ DOMAIN inst.sm = {}
    /\ DOMAIN inst.text = {} /\ DOMAIN inst.element = {}

(* C11. Fail-fast resolution: when a wanted receptor is missing from the   *)
(* container or carried by two elements, attach fails before any setup     *)
(* action, initializer, argument assignment or attach hook has run: no     *)
(* property is installed on the instance and no listener is attached to a  *)
(* node of the container.                                                  *)
C11_FailFast ==
    Attached /\ ~Resolved =>
      /\ Failed(last)
      /\ \E k \in 1..Len(meta.setup) :
           last.err.msg \in { "Duplicate element with class " \o prefix \o meta.setup[k].id,
                              "Failed to locate class " \o prefix \o meta.setup[k].id }
      /\ last.log = <<>>
      /\ Pristine(TheInst)
      /\ ~TheInst.attached

\* attach has failed on a duplicated receptor that the second setup action
\* names, the first action's receptor being there once; an initializer, an
\* argument and a hook were waiting
C11_Witness ==
    /\ Attached /\ last.err.msg = "Duplicate element with class jrna-a"
    /\ Len(meta.setup) = 2 /\ meta.setup[1].id = "b" /\ meta.setup[1].action.cb # <<>>
    /\ meta.init # <<>> /\ meta.onAttach # <<>>
    /\ last.args = <<Arg("p", "v2")>>

-----------------------------------------------------------------------------
(* Two instances of one blueprint.  The blueprint declares an output, a    *)
(* toggle or a sticky click and may hold a template; it is bound to the    *)
(* two containers of the page, which have the same shape, or to copies of  *)
(* its template; then properties are assigned, nodes are clicked and       *)
(* removal hooks are added on either instance, in any order.               *)

\* the containers that the page offers, each an object of its own
PageDocs == {"c1", "c2"}

InUse(d) == \E i \in 1..Len(insts) : insts[i].container.doc = d

Room == Len(insts) < Cardinality(PageDocs)

NextInst ==
    \/ MoreSetup /\ Output(<<"a">>)
    \/ MoreSetup /\ Toggle("b", Fn("f"), Fn("g"))
    \/ MoreSetup /\ StickyClick("b", "lock", Fn("h1"))
    \/ Building /\ meta.master = <<>> /\ Html([given |-> TRUE, str |-> <<TreeAB>>]) /\ UNCHANGED calls
    \/ \E d \in PageDocs : Room /\ ~InUse(d) /\ Attach(One(Doc(TreeAB, d)), <<>>) /\ UNCHANGED calls
    \/ Room /\ Instantiate(<<>>) /\ UNCHANGED calls
    \/ \E i \in 1..Len(insts) : SetProp(i, "a", "x") /\ UNCHANGED calls
    \/ \E i \in 1..Len(insts) : SetProp(i, "lock", "false") /\ UNCHANGED calls
    \/ \E i \in 1..Len(insts) : Deliver(i, Node(3), "click") /\ UNCHANGED calls
    \/ \E i \in 1..Len(insts) :
          Len(insts[i].onRemove) = Len(meta.onRemove) /\ InstOnRemove(i, "h2") /\ UNCHANGED calls

SpecInst == Init /\ [][NextInst]_vars

\* the instance without what names it and its container
Shape(inst) ==
    [inst EXCEPT !.id = "", !.container = [inst.container EXCEPT !.doc = ""]]

\* the step is an operation on the instance i
OnInstance(i) ==
    last'.op \in {"set", "event", "type", "inst.onRemove", "remove", "inst.appendTo"} /\ last'.inst = i

\* no two instances are bound to the same subtree, none to the template
C12_OwnSubtree ==
    /\ \A i, j \in 1..Len(insts) : i # j => insts[i].container.doc # insts[j].container.doc
    /\ \A i \in 1..Len(insts) : \A k \in 1..Len(meta.master) :
          insts[i].container.doc # meta.master[k].doc

\* an operation on one instance changes neither another instance nor the
\* blueprint and its template
C12_OthersKept ==
    \A i \in 1..Len(insts) :
       OnInstance(i) =>
          /\ \A j \in 1..Len(insts) : j # i => insts'[j] = insts[j]
          /\ Len(insts') = Len(insts)
          /\ meta' = meta

\* the second instance made in the same way as the first is as the first was
C12_SameShape ==
    (/\ Len(insts) = 1 /\ Len(insts') = 2
     /\ last.op \in {"attach", "instantiate"} /\ last'.op = last.op /\ last'.args = last.args)
      => Shape(insts'[2]) = Shape(insts[1]) /\ insts'[1] = insts[1]

(* C12. Instance independence: two instances made from one blueprint with  *)
(* the same arguments, on two containers of the same shape or on two       *)
(* copies of the template, are alike and share nothing that changes:       *)
(* assigning an output, advancing a toggle, setting a sticky-click lock or *)
(* adding a removal hook on one changes neither the other instance nor its *)
(* subtree, and never the template of the blueprint.                       *)
C12_Independence ==
    /\ []C12_OwnSubtree
    /\ [][C12_OthersKept /\ C12_SameShape]_vars

\* two copies of the template differ in an output, a toggle and a hook
C12_Witness ==
    /\ Len(insts) = 2
    /\ meta.master # <<>>
    /\ insts[1].container.doc = "clone1" /\ insts[2].container.doc = "clone2"
    /\ ReadProp(insts[1], "a") = "x" /\ ReadProp(insts[2], "a") = Undefined
    /\ NodeText(insts[1], Node(2)) = "x" /\ NodeText(insts[2], Node(2)) = Held(Node(2))
    /\ \E k \in DOMAIN insts[1].tog : insts[1].tog[k] # insts[2].tog[k]
    /\ Len(insts[1].onRemove) # Len(insts[2].onRemove)

-----------------------------------------------------------------------------
(* Sticky states side by side: closures of run() on runners of one table,  *)
(* and the method st of two instances of a blueprint that declares         *)
(* stickyState('st', ...); calls on any of them in any order.              *)

StateArgs == {<<>>, <<"s">>, <<"t">>, <<"zz">>}

NextStates ==
    \/ \E i \in {Undefined, "s"} :
          Len(machines) < MaxMachines /\ NewMachine("docs", SMTable, i) /\ UNCHANGED calls
    \/ \E m \in 1..Len(machines), a \in {Undefined, "s", "t", "zz"} :
          CallMachine(m, a, "obj") /\ UNCHANGED calls
    \/ \E i \in {Undefined, "s"} :
          Building /\ meta.init = <<>> /\ StickyState("st", SMTable, i) /\ UNCHANGED calls
    \/ \E d \in PageDocs : Room /\ ~InUse(d) /\ Attach(One(Doc(TreeA, d)), <<>>) /\ UNCHANGED calls
    \/ \E i \in 1..Len(insts), a \in StateArgs : CallMethod(i, "st", a) /\ UNCHANGED calls

SpecStates == Init /\ [][NextStates]_vars

\* the state a machine returns when asked
Getter(mc) == smCall(mc.table, mc.state, Undefined, "obj").ret

\* the call asks for a declared state other than the machine's own
Moves(mc, a) == a # Undefined /\ a # mc.state /\ Truthy(Get(mc.table, a))

\* a new machine starts in the initial state of its declaration, whatever
\* the machines made before it have done
C13_Fresh ==
    /\ Len(machines') = Len(machines) + 1 =>
         Getter(machines'[Len(machines')]) = last'.initial
    /\ Len(insts') = Len(insts) + 1 /\ meta.init # <<>> =>
         /\ "st" \in DOMAIN insts'[Len(insts')].sm
         /\ Getter(insts'[Len(insts')].sm["st"]) = meta.init[1].val.val

\* a call on a machine leaves every other machine as it was, and runs a
\* handler exactly when the machine's own state calls for it
C13_Apart ==
    /\ last'.op = "machine" =>
         /\ \A k \in 1..Len(machines) : k # last'.m => machines'[k] = machines[k]
         /\ insts' = insts
         /\ last'.log # <<>> <=> Moves(machines[last'.m], last'.arg)
         /\ \A j \in 1..Len(last'.log) :
              last'.log[j].args = <<machines[last'.m].state, last'.arg>>
    /\ last'.op = "method" /\ "st" \in DOMAIN insts[last'.inst].sm =>
         LET a == IF last'.args = <<>> THEN Undefined ELSE last'.args[1] IN
         /\ \A k \in 1..Len(insts) : k # last'.inst => insts'[k] = insts[k]
         /\ machines' = machines
         /\ last'.log # <<>> <=> Moves(insts[last'.inst].sm["st"], a)
         /\ \A j \in 1..Len(last'.log) :
              last'.log[j].args = <<insts[last'.inst].sm["st"].state, a>>

(* C13. Every call of run() on a sticky-state runner, and so every         *)
(* instance of a blueprint that declares stickyState, gets a machine of    *)
(* its own that starts in the initial state; a transition on one machine   *)
(* never changes the state another returns, and neither suppresses nor     *)
(* triggers a handler of another.                                          *)
C13_OwnMachine == [][C13_Fresh /\ C13_Apart]_vars

\* two closures of one runner and two instances, each pair in two states
C13_Witness ==
    /\ Len(machines) = 2 /\ machines[1].initial = machines[2].initial
    /\ machines[1].state # machines[2].state
    /\ Len(insts) = 2 /\ "st" \in DOMAIN insts[1].sm /\ "st" \in DOMAIN insts[2].sm
    /\ insts[1].sm["st"].state # insts[2].sm["st"].state
    /\ last.op = "method" /\ last.log # <<>>

-----------------------------------------------------------------------------
(* The blueprint while its instances live.  A blueprint with a removal     *)
(* hook, an output, a click and a template is bound to the containers of   *)
(* the page or instantiated; then on either instance a property is         *)
(* assigned, the node is clicked, a removal hook is added, the instance is *)
(* moved or removed.                                                       *)

\* the removal hook that user code adds to the i-th instance
Own(i) == IF i = 1 THEN "f" ELSE "g"

\* somewhere on the page to append to
List == [kind |-> "$", nodes |-> <<"list">>]

Declares(kind) == \E k \in 1..Len(meta.setup) : meta.setup[k].action.kind = kind

NextFrame ==
    \/ Building /\ meta.onRemove = <<>> /\ OnRemove("h1") /\ UNCHANGED calls
    \/ MoreSetup /\ ~Declares("output") /\ Output(<<"a">>)
    \/ MoreSetup /\ ~Declares("click") /\ Click("a", Fn("h2"))
    \/ Building /\ meta.master = <<>> /\ Html([given |-> TRUE, str |-> <<TreeA>>]) /\ UNCHANGED calls
    \/ \E d \in PageDocs : Room /\ ~InUse(d) /\ Attach(One(Doc(TreeA, d)), <<>>) /\ UNCHANGED calls
    \/ Room /\ Instantiate(<<>>) /\ UNCHANGED calls
    \/ Room /\ AppendTo(List, <<>>) /\ UNCHANGED calls
    \/ \E i \in 1..Len(insts) : SetProp(i, "a", "x") /\ UNCHANGED calls
    \/ \E i \in 1..Len(insts) : Deliver(i, Node(1), "click") /\ UNCHANGED calls
    \/ \E i \in 1..Len(insts) :
          Len(insts[i].onRemove) = Len(meta.onRemove) /\ InstOnRemove(i, Own(i)) /\ UNCHANGED calls
    \/ \E i \in 1..Len(insts) : insts[i].parent # "none" /\ Remove(i) /\ UNCHANGED calls
    \/ \E i \in 1..Len(insts) : insts[i].parent = "none" /\ InstAppendTo(i, List) /\ UNCHANGED calls

SpecFrame == Init /\ [][NextFrame]_vars

\* the step binds the blueprint or works on an instance
Binds == last'.op \in {"attach", "instantiate", "appendTo"}

\* binding and every operation on an instance leave the blueprint as it is
C14_BlueprintKept ==
    Binds \/ (\E i \in 1..Len(insts) : OnInstance(i)) => meta' = meta

\* the hooks that a removal runs are those of the blueprint when the
\* instance was bound, then the instance's own; never another instance's
C14_OwnHooks ==
    \A i \in 1..Len(insts) :
       last'.op = "remove" /\ last'.inst = i =>
          /\ \A j \in 1..Len(last'.log) : \A k \in 1..Len(insts) :
                k # i => last'.log[j].name # Own(k)
          /\ \A j \in 1..Len(last'.log) :
                last'.log[j].t = "unhook" => last'.log[j].this = InstId(i)

\* a new instance starts with the hooks of the blueprint, whatever was
\* added to the instances before it
C14_Seeded ==
    Len(insts') = Len(insts) + 1 => insts'[Len(insts')].onRemove = meta.onRemove

(* C14. Blueprint frame: attach, instantiate, appendTo and every operation *)
(* on a bound instance (assigning a property, adding a removal hook,       *)
(* moving, removing, a click that runs a callback) leave the blueprint's   *)
(* registry, queues, tables, template and hook lists as they were; a       *)
(* removal hook added through inst.onRemove runs for that instance only.   *)
C14_Frame == [][C14_BlueprintKept /\ C14_OwnHooks /\ C14_Seeded]_vars

\* the second instance is removed with its own hook after the first got one
C14_Witness ==
    /\ last.op = "remove" /\ last.inst = 2
    /\ Len(last.log) = 3 /\ last.log[1].name = "h1" /\ last.log[2].name = "g"
    /\ insts[1].onRemove = <<"h1", "f">>
    /\ meta.onRemove = <<"h1">> /\ meta.master # <<>>

-----------------------------------------------------------------------------
(* Removal.  Removal hooks are registered on the blueprint before and      *)
(* after it is bound, and added to the instance; the hook boom throws.     *)
(* The instance is removed when its container has a parent.                *)

NextRemove ==
    \/ \E h \in {"h1", "boom"} :
          Len(meta.onRemove) < MaxHooks /\ OnRemove(h) /\ UNCHANGED calls
    \/ Building /\ Attach(One(Doc(TreeA, "c1")), <<>>) /\ UNCHANGED calls
    \/ \E i \in 1..Len(insts), cb \in {"f", "g"} :
          Len(insts[i].onRemove) < MaxHooks + 2 /\ InstOnRemove(i, cb) /\ UNCHANGED calls
    \/ \E i \in 1..Len(insts) : insts[i].parent # "none" /\ Remove(i) /\ UNCHANGED calls

SpecRemove == Init /\ [][NextRemove]_vars

\* the hooks of an instance: seeded from the blueprint when it is bound,
\* appended to by inst.onRemove, and by nothing else
C15_HookList ==
    /\ last'.op = "attach" /\ Len(insts') = Len(insts) + 1 =>
         insts'[Len(insts')].onRemove = meta.onRemove
    /\ last'.op = "inst.onRemove" =>
         /\ insts'[last'.inst].onRemove = Append(insts[last'.inst].onRemove, last'.cb)
         /\ meta' = meta
    /\ last'.op = "onRemove" => insts' = insts

\* the first hook of the instance that throws, or one past the last
Stop(inst) ==
    IF \E k \in 1..Len(inst.onRemove) : Throws(inst.onRemove[k])
    THEN CHOOSE k \in 1..Len(inst.onRemove) :
            Throws(inst.onRemove[k]) /\ \A j \in 1..(k - 1) : ~Throws(inst.onRemove[j])
    ELSE Len(inst.onRemove) + 1

\* remove runs the hooks in the order of the list, each with the instance
\* as receiver and no argument, and then detaches the container
C15_RemoveRuns ==
    \A i \in 1..Len(insts) :
       last'.op = "remove" /\ last'.inst = i =>
          LET hooks == insts[i].onRemove
              stop  == Stop(insts[i]) IN
          /\ \A k \in 1..Len(hooks) :
                k <= stop => /\ k <= Len(last'.log)
                             /\ last'.log[k] = Ev("unhook", k, hooks[k], Undefined, InstId(i), <<>>)
          /\ stop <= Len(hooks) =>
                /\ Len(last'.log) = stop
                /\ Failed(last')
                /\ insts'[i].parent = insts[i].parent
          /\ stop > Len(hooks) =>
                /\ Len(last'.log) = Len(hooks) + 1
                /\ last'.log[Len(hooks) + 1].t = "detach"
                /\ ~Failed(last')
                /\ insts'[i].parent = "none"

(* C15. inst.remove() invokes every removal hook of the instance in the    *)
(* order of registration, the hooks that the blueprint had when the        *)
(* instance was bound first, then those added through inst.onRemove, each  *)
(* with the instance as receiver and no arguments, and detaches the        *)
(* container from its parent only after the last hook has returned.        *)
C15_Removal == [][C15_HookList /\ C15_RemoveRuns]_vars

\* a removal has run a hook of the blueprint, then two added hooks in the
\* order they were added, then detached; the blueprint got a hook since
C15_Witness ==
    /\ last.op = "remove" /\ ~Failed(last)
    /\ Len(last.log) = 4
    /\ last.log[1].name = "h1" /\ last.log[2].name = "g" /\ last.log[3].name = "f"
    /\ last.log[4].t = "detach"
    /\ Len(meta.onRemove) = 2

-----------------------------------------------------------------------------
(* The template.  html() is called with a string of one element, of two,   *)
(* of text only, of nothing, or with no argument; the blueprint declares   *)
(* an initializer and an attach hook; it is instantiated, or appended.     *)

\* a lone Text node
TextNode == [n |-> 1, parent |-> <<0>>, type |-> <<3>>, cls |-> << <<>> >>]

\* span with no class
Plain == [n |-> 1, parent |-> <<0>>, type |-> <<1>>, cls |-> << <<>> >>]

HtmlStrings == { <<>>, <<Plain>>, <<TreeA>>, <<TextNode, Plain>>, <<Plain, Plain>> }

NextTemplate ==
    \/ \E str \in HtmlStrings : Building /\ Html([given |-> TRUE, str |-> str]) /\ UNCHANGED calls
    \/ Building /\ Html([given |-> FALSE]) /\ UNCHANGED calls
    \/ Building /\ meta.init = <<>> /\ Def("p", "v1") /\ UNCHANGED calls
    \/ MoreHooks /\ OnAttach("h1")
    \/ MoreSetup /\ Output(<<"a">>)
    \/ Len(insts) < MaxInst /\ Instantiate(<<>>) /\ UNCHANGED calls
    \/ Len(insts) < MaxInst /\ AppendTo(List, <<>>) /\ UNCHANGED calls

SpecTemplate == Init /\ [][NextTemplate]_vars

\* the blueprint has no template at the start and after html(); a call of
\* html with a string sets the template or fails and leaves it
C16_Template ==
    last'.op = "html" =>
       \/ ~last'.given /\ ~Failed(last') /\ meta'.master = <<>>
       \/ last'.given /\ ~Failed(last') /\ meta'.master # <<>>
       \/ last'.given /\ Failed(last') /\ meta'.master = meta.master

\* without a template instantiate and appendTo throw and make nothing
C16_Nothing ==
    last'.op \in {"instantiate", "appendTo"} /\ meta.master = <<>> =>
       /\ last'.err = blame("Trying to instantiate with an empty html()")
       /\ last'.made = 0
       /\ last'.log = <<>>
       /\ insts' = insts
       /\ meta' = meta

\* with a template a Bound is created
C16_Something ==
    last'.op \in {"instantiate", "appendTo"} /\ meta.master # <<>> =>
       /\ last'.made = 1
       /\ Len(insts') = Len(insts) + 1

(* C16. instantiate, and appendTo of the blueprint, which goes through it, *)
(* on a blueprint that has no template - none was set, or html() without   *)
(* an argument reset it - fail with an error and produce no instance: no   *)
(* Bound is created, no setup action, initializer or attach hook runs.     *)
C16_NoTemplate ==
    /\ (insts = <<>> /\ last.op = "new" => meta.master = <<>>)
    /\ [][C16_Template /\ C16_Nothing /\ C16_Something]_vars

\* appendTo has failed on a blueprint whose template was set and then
\* reset, with an initializer, a hook and a setup action waiting
C16_Witness ==
    /\ last.op = "appendTo" /\ last.target = List /\ last.err = blame("Trying to instantiate with an empty html()")
    /\ insts = <<>>
    /\ meta.init # <<>> /\ meta.onAttach # <<>> /\ meta.setup # <<>>

-----------------------------------------------------------------------------
(* Bound properties.  Outputs a and t write the same node, input b reads   *)
(* another; one instance is attached, then the properties are assigned     *)
(* and the user types into the input's node.                               *)

Texts == {"Ship it", "v2"}

NextBinding ==
    \/ \E receptor \in { <<"a">>, <<"a", "t">> } :
          Building /\ Len(meta.setup) < MaxSetup + 1 /\ Output(receptor) /\ UNCHANGED calls
    \/ Building /\ Len(meta.setup) < MaxSetup + 1 /\ Input(<<"b">>) /\ UNCHANGED calls
    \/ Building /\ Attach(One(Doc(TreeAB, "c1")), <<>>) /\ UNCHANGED calls
    \/ \E i \in 1..Len(insts), name \in {"a", "t", "b"}, val \in Texts :
          name \in DOMAIN insts[i].acc /\ SetProp(i, name, val) /\ UNCHANGED calls
    \/ \E i \in 1..Len(insts) :
          /\ "b" \in DOMAIN insts[i].acc
          /\ Type(i, insts[i].acc["b"].node, "typed")
          /\ UNCHANGED calls

SpecBinding == Init /\ [][NextBinding]_vars

\* the properties of an instance made by kind
Bindings(inst, kind) == { p \in DOMAIN inst.acc : inst.acc[p].kind = kind }

\* right after the attach an output reads undefined and its node holds
\* the text the container came with
C17_Unassigned ==
    last'.op = "attach" /\ last'.made = 1 =>
       \A p \in Bindings(insts'[Len(insts')], "output") :
          /\ ReadProp(insts'[Len(insts')], p) = Undefined
          /\ NodeText(insts'[Len(insts')], insts'[Len(insts')].acc[p].node)
                = Held(insts'[Len(insts')].acc[p].node)

\* an assignment to an output is what the property reads and what its
\* node shows; the other properties read as before
C17_Assigned ==
    \A i \in 1..Len(insts) : \A p \in Bindings(insts[i], "output") :
       last'.op = "set" /\ last'.inst = i /\ last'.name = p =>
          /\ ReadProp(insts'[i], p) = last'.val
          /\ NodeText(insts'[i], insts[i].acc[p].node) = last'.val
          /\ \A q \in Bindings(insts[i], "output") \ {p} :
                ReadProp(insts'[i], q) = ReadProp(insts[i], q)

\* nothing but an assignment changes what an output reads, nothing but
\* an assignment to an output of the node changes the node's text
C17_Kept ==
    \A i \in 1..Len(insts) : \A p \in Bindings(insts[i], "output") :
       /\ ~(last'.op = "set" /\ last'.inst = i /\ last'.name = p)
             => ReadProp(insts'[i], p) = ReadProp(insts[i], p)
       /\ ~(last'.op = "set" /\ last'.inst = i /\ last'.name \in Bindings(insts[i], "output")
              /\ insts[i].acc[last'.name].node = insts[i].acc[p].node)
             => NodeText(insts'[i], insts[i].acc[p].node) = NodeText(insts[i], insts[i].acc[p].node)

\* an input reads what its node holds now: what was typed last or
\* assigned last, whichever came later; before both, what the node held
C17_Live ==
    \A i \in 1..Len(insts) : \A p \in Bindings(insts[i], "input") :
       /\ last'.op = "type" /\ last'.inst = i /\ last'.node = insts[i].acc[p].node
             => ReadProp(insts'[i], p) = last'.val
       /\ last'.op = "set" /\ last'.inst = i /\ last'.name = p
             => ReadProp(insts'[i], p) = last'.val
       /\ ~(last'.op \in {"set", "type"})
             => ReadProp(insts'[i], p) = ReadProp(insts[i], p)

(* C17. A property declared with output reads undefined until it is        *)
(* assigned and its node keeps the text it came with; after each           *)
(* assignment the property reads the value assigned last and the node's    *)
(* text is that value.  A property declared with input reads the value     *)
(* its node holds at the time of the read, not the value assigned last.    *)
C17_Binding ==
    /\ [][C17_Unassigned /\ C17_Assigned /\ C17_Kept /\ C17_Live]_vars
    /\ [][last'.op = "attach" /\ last'.made = 1 =>
            \A p \in Bindings(insts'[Len(insts')], "input") :
               ReadProp(insts'[Len(insts')], p) = Held(insts'[Len(insts')].acc[p].node)]_vars

\* "Ship it" was assigned to a and shows in its node; the user has just
\* typed into the node of input b, and b reads what was typed
C17_Witness ==
    /\ last.op = "type"
    /\ Len(insts) = 1
    /\ {"a", "b"} \subseteq DOMAIN insts[1].acc
    /\ ReadProp(insts[1], "a") = "Ship it"
    /\ NodeText(insts[1], insts[1].acc["a"].node) = "Ship it"
    /\ insts[1].acc["b"].kind = "input"
    /\ ReadProp(insts[1], "b") = "typed"

-----------------------------------------------------------------------------
(* Toggles.  Up to MaxSetup toggles are declared, on one node or on two,   *)
(* one of them with a cbOn that throws; two containers are attached and    *)
(* their nodes are clicked in any order.                                   *)

Toggles == { <<"a", "f", "g">>, <<"b", "h1", "h2">>, <<"a", "boom", "h2">> }

NextToggle ==
    \/ \E t \in Toggles : MoreSetup /\ Toggle(t[1], Fn(t[2]), Fn(t[3]))
    \/ \E d \in PageDocs : Room /\ ~InUse(d) /\ Attach(One(Doc(TreeAB, d)), <<>>) /\ UNCHANGED calls
    \/ \E i \in 1..Len(insts), n \in 2..3 : Deliver(i, Node(n), "click") /\ UNCHANGED calls

SpecToggle == Init /\ [][NextToggle]_vars

\* the setup actions of the blueprint that are toggles
ToggleDecls == { k \in 1..Len(meta.setup) : meta.setup[k].action.kind = "toggle" }

\* where the listener of toggle k shows in the log of an event
Activations(log, k) == { j \in 1..Len(log) : log[j].t = "listener" /\ log[j].k = k }

\* the callback an activation of toggle k on instance inst is to call
Due(inst, k) ==
    Head(IF inst.tog[k] THEN meta.setup[k].action.off ELSE meta.setup[k].action.cb)

\* an attached instance has a flag for each toggle, not yet on
C18_Start ==
    last'.op = "attach" /\ last'.made = 1 =>
       \A k \in ToggleDecls : insts'[Len(insts')].tog[k] = FALSE

\* a click on a node activates the first toggle of that node, and every
\* further one as long as no callback has thrown; each activation flips
\* the flag of its toggle on its instance and makes one call: cbOn if the
\* flag was off, cbOff if it was on, with the instance as receiver
C18_Activation ==
    \A i \in 1..Len(insts) :
       last'.op = "event" /\ last'.inst = i =>
          \A k \in ToggleDecls :
             /\ Cardinality(Activations(last'.log, k)) <= 1
             /\ Activations(last'.log, k) = {} => insts'[i].tog[k] = insts[i].tog[k]
             /\ meta.setup[k].id = "a" /\ last'.node = Node(2)
                /\ (\A m \in 1..(k - 1) : meta.setup[m].id = "a" => ~Throws(Due(insts[i], m)))
                   => Activations(last'.log, k) # {}
             /\ meta.setup[k].id = "b" /\ last'.node = Node(3)
                /\ (\A m \in 1..(k - 1) : meta.setup[m].id = "b" => ~Throws(Due(insts[i], m)))
                   => Activations(last'.log, k) # {}
             /\ \A j \in Activations(last'.log, k) :
                   /\ insts'[i].tog[k] = ~insts[i].tog[k]
                   /\ j + 1 <= Len(last'.log)
                   /\ last'.log[j + 1].t = "call"
                   /\ last'.log[j + 1].name = Due(insts[i], k)
                   /\ last'.log[j + 1].this = InstId(i)
                   /\ j + 2 <= Len(last'.log) => last'.log[j + 2].t = "listener"

\* the flags of an instance change by its own events only
C18_Own ==
    \A i \in 1..Len(insts) :
       ~(last'.op = "event" /\ last'.inst = i) => insts'[i].tog = insts[i].tog

\* the first activation after the attach calls cbOn
C18_First ==
    \A k \in ToggleDecls :
       last.op = "attach" /\ last'.op = "event" /\ last'.inst = Len(insts) =>
          \A j \in Activations(last'.log, k) :
             last'.log[j + 1].name = Head(meta.setup[k].action.cb)

\* of two activations in a row of one toggle on one instance the second
\* calls the other callback
C18_Alternate ==
    \A k \in ToggleDecls :
       last.op = "event" /\ last'.op = "event" /\ last'.inst = last.inst =>
          \A j \in Activations(last.log, k), n \in Activations(last'.log, k) :
             last'.log[n + 1].name # last.log[j + 1].name

(* C18. toggle(receptor, cbOn, cbOff): on each instance and for each       *)
(* toggle declaration, the activations alternate between the two           *)
(* callbacks, starting with cbOn: the k-th activation calls cbOn when k    *)
(* is odd and cbOff when k is even, and each activation calls exactly one  *)
(* of the two.                                                             *)
C18_Toggle ==
    [][C18_Start /\ C18_Activation /\ C18_Own /\ C18_First /\ C18_Alternate]_vars

\* node a of the second instance has been clicked twice in a row, the
\* second click calling cbOff, while the first instance was never clicked
C18_Witness ==
    /\ Len(insts) = 2
    /\ last.op = "event" /\ last.inst = 2 /\ last.node = Node(2)
    /\ \E k \in ToggleDecls :
          /\ meta.setup[k].action.cb = Fn("f")
          /\ insts[1].tog[k] = FALSE
          /\ insts[2].tog[k] = FALSE
          /\ \E j \in Activations(last.log, k) : last.log[j + 1].name = "g"

-----------------------------------------------------------------------------
(* Callback specifications.  click is declared with a function, a method   *)
(* name, a list with arguments, or with something that is neither; the     *)
(* method m is defined, and assigned again on the instance, between the    *)
(* attach and the clicks.                                                  *)

GoodSpecs == { <<"f">>, <<"m">>, <<"f", "a1">>, <<"m", "a1", "a2">> }

\* no callback, an empty list, a head that is null or a boolean
BadSpecs == { <<>>, <<"undefined">>, <<"null", "a1">>, <<"true">> }

NextCurry ==
    \/ \E spec \in GoodSpecs \cup BadSpecs : MoreSetup /\ Click("a", spec)
    \/ \E f \in {"f", "v1"} : Building /\ meta.init = <<>> /\ Def("m", f) /\ UNCHANGED calls
    \/ Len(insts) < MaxInst /\ Attach(One(TreeAB), <<>>) /\ UNCHANGED calls
    \/ \E i \in 1..Len(insts), v \in {"g", "boom", "v2"} : SetProp(i, "m", v) /\ UNCHANGED calls
    \/ \E i \in 1..Len(insts) : Deliver(i, Node(2), "click") /\ UNCHANGED calls

SpecCurry == Init /\ [][NextCurry]_vars

\* the specifications of the blueprint's click actions
SpecOf(k) == meta.setup[k].action.cb

\* what a good specification stands for on instance inst at this moment
Target(inst, spec) ==
    IF Head(spec) \in Functions THEN Head(spec) ELSE ReadProp(inst, Head(spec))

\* an attach fails on a specification that is no callback, in the setup
\* action that has it, and on no other specification
C19_Resolved ==
    last'.op = "attach" =>
       /\ (\E k \in 1..Len(meta.setup) : SpecOf(k) \in BadSpecs)
             <=> last'.err = blame("Unexpected callback argument")
       /\ (\A k \in 1..Len(meta.setup) : SpecOf(k) \in GoodSpecs)
             <=> (~Failed(last') /\ insts'[Len(insts')].attached)
       /\ last'.err = blame("Unexpected callback argument") =>
             /\ SpecOf(Len(SelectSeq(last'.log, IsSetupEv))) \in BadSpecs
             /\ \A k \in 1..(Len(SelectSeq(last'.log, IsSetupEv)) - 1) : SpecOf(k) \in GoodSpecs
             /\ ~insts'[Len(insts')].attached

\* a handler that is called invokes the function of its specification, or
\* the function the instance holds under the name at the time of the call,
\* on the instance, with the listed arguments and then the event; a name
\* that holds no function at that time makes the call fail
C19_Called ==
    \A i \in 1..Len(insts) :
       last'.op = "event" /\ last'.inst = i =>
          /\ insts[i].attached /\ meta.setup # <<>> => last'.log # <<>> /\ last'.log[1].t = "listener"
          /\ \A j \in 1..Len(last'.log) :
                /\ last'.log[j].t = "call" => j > 1 /\ last'.log[j - 1].t = "listener"
                /\ last'.log[j].t = "listener" =>
                     IF Target(insts[i], SpecOf(last'.log[j].k)) \in Functions
                     THEN /\ j + 1 <= Len(last'.log)
                          /\ last'.log[j + 1]
                               = Call(Target(insts[i], SpecOf(last'.log[j].k)), InstId(i),
                                      Tail(SpecOf(last'.log[j].k)) \o <<"ev">>)
                     ELSE /\ j = Len(last'.log)
                          /\ Failed(last')
                          /\ last'.err.msg
                               = "TypeError: " \o Head(SpecOf(last'.log[j].k)) \o " is not a function"

(* C19. A callback specification that is a function f, a method name m,    *)
(* or a list of one of these followed by arguments a1..an resolves to a    *)
(* handler which, called with runtime arguments R, invokes f, or the       *)
(* function stored under m on the instance at the time of the call, with   *)
(* the instance as receiver and the arguments a1..an followed by R.  Any   *)
(* other specification - none, an empty list, a head that is neither a     *)
(* function nor a string - fails.                                          *)
C19_Curry == [][C19_Resolved /\ C19_Called]_vars

\* m was f when the handler was bound and g when the node was clicked:
\* g was called on the instance with a1, a2 and the event
C19_Witness ==
    /\ last.op = "event" /\ Len(insts) = 1
    /\ meta.init = <<[key |-> "m", val |-> [kind |-> "def", val |-> "f"]]>>
    /\ \E j \in 1..Len(last.log) :
          last.log[j] = Call("g", InstId(1), <<"a1", "a2", "ev">>)

-----------------------------------------------------------------------------
(* Reserved names.  Every declaration that claims a name is tried on each  *)
(* reserved name and on a free one, each name is declared as an argument   *)
(* and supplied to attach.                                                 *)

Names == Reserved \cup {"a"}

ArgLists == { <<Arg(n, "v1")>> : n \in Names } \cup { <<Arg("id", "v1"), Arg(n, "v1")>> : n \in Names }

\* one declaration short of MaxDecl, each of them on any of the names
FewDecl == calls + 1 < MaxDecl /\ calls' = calls + 1

NextReserved ==
    \/ \E n \in Names : FewDecl /\ Output(<<"a", n>>)
    \/ \E n \in Names : FewDecl /\ RawOutput(<<"a", n>>)
    \/ \E n \in Names : FewDecl /\ Input(<<"a", n>>)
    \/ \E n \in Names : FewDecl /\ Element(<<"a", n>>)
    \/ \E n \in Names : FewDecl /\ Upload(<<"a", n>>)
    \/ \E n \in Names, v \in {"v1", "f"} : FewDecl /\ Def(n, v)
    \/ \E n \in Names : FewDecl /\ InitDecl(n, "g")
    \/ \E n \in Names : FewDecl /\ InitArray(n, "arr")
    \/ \E n \in Names : FewDecl /\ InitObject(n, "obj")
    \/ \E n \in Names : FewDecl /\ StickyState(n, Table, "s")
    \/ \E n \in Names : FewDecl /\ StickyClick("a", n, Fn("f"))
    \/ \E n \in Names, sp \in ArgSpecs : FewDecl /\ AddArgument(n, sp)
    \/ \E n \in Names, l \in {<<>>, <<"b">>} : FewDecl /\ Args(l \o <<n>>)
    \/ \E a \in ArgLists \cup {<<>>} : Building /\ Attach(One(TreeA), a) /\ UNCHANGED calls

SpecReserved == Init /\ [][NextReserved]_vars

\* the declarations that claim a name for a property, a method or a lock
ClaimOps == { "output", "rawOutput", "input", "element", "upload", "def", "init",
              "initArray", "initObject", "stickyState", "stickyClick" }

\* the first of the keys that is a reserved name other than skip
RECURSIVE FirstReserved(_, _)
FirstReserved(keys, skip) ==
    IF keys = <<>> THEN Undefined
    ELSE IF Head(keys) \in Reserved \ skip THEN Head(keys)
    ELSE FirstReserved(Tail(keys), skip)

\* the keys of an argument object, in order
RECURSIVE KeysOf(_)
KeysOf(arguments) ==
    IF arguments = <<>> THEN <<>> ELSE <<Head(arguments).key>> \o KeysOf(Tail(arguments))

\* every reserved name is taken and barred as an argument, id alone is
\* allowed as one; no setup action or initializer bears a reserved name
C20_Locked ==
    /\ \A n \in Reserved :
          /\ Get(meta.known, n) = "true"
          /\ Get(meta.noArgs, n) = "true"
          /\ Truthy(Get(meta.allowArgs, n)) <=> n = "id"
    /\ \A k \in 1..Len(meta.setup) :
          "name" \in DOMAIN meta.setup[k].action => meta.setup[k].action.name \notin Reserved
    /\ \A k \in 1..Len(meta.init) : meta.init[k].key \notin Reserved

\* a declaration that claims a reserved name throws and declares nothing
C20_Claim ==
    last'.op \in ClaimOps /\ last'.name \in Reserved =>
       /\ last'.err = blame("Property name already in use: " \o last'.name)
       /\ meta'.known = meta.known
       /\ meta'.setup = meta.setup
       /\ meta'.init = meta.init
       /\ meta'.allowArgs = meta.allowArgs

\* declaring a reserved name as an argument throws
C20_Declared ==
    /\ last'.op = "addArgument" /\ last'.name \in Reserved /\ ~Truthy(last'.spec.forbidden) =>
          /\ last'.err = blame("Forbidden argument name: " \o last'.name)
          /\ meta' = meta
    /\ last'.op = "args" /\ FirstReserved(last'.list, {}) # Undefined =>
          /\ last'.err = blame("Forbidden argument name: " \o FirstReserved(last'.list, {}))
          /\ meta'.allowArgs \in {meta.allowArgs, Put(meta.allowArgs, "b", "true")}

\* an attach that is given a reserved name other than id throws
C20_Supplied ==
    last'.op = "attach" /\ FirstReserved(KeysOf(last'.args), {"id"}) # Undefined =>
       /\ Failed(last')
       /\ ~insts'[Len(insts')].attached
       /\ last'.args[1].key # "id" =>
             last'.err = blame("unknown argument " \o last'.args[1].key)
       /\ last'.args[1].key = "id" /\ ~Truthy(Get(meta.isMethod, "id")) =>
             last'.err = blame("unknown argument " \o last'.args[2].key)

\* id may be supplied
C20_Id ==
    last'.op = "attach" /\ KeysOf(last'.args) = <<"id">> /\ ~Truthy(Get(meta.isMethod, "id")) =>
       /\ ~Failed(last')
       /\ ReadProp(insts'[Len(insts')], "id") = "v1"

(* C20. On every blueprint, from its creation on, the names appendTo,      *)
(* container, element, id, onAttach, onRemove and remove are locked        *)
(* exclusively: every declaration that would claim one of them as a        *)
(* property, a method or a stickyClick lock fails, and none of them but    *)
(* id can be declared as an argument or supplied as one.                   *)
C20_ReservedNames ==
    /\ []C20_Locked
    /\ [][C20_Claim /\ C20_Declared /\ C20_Supplied /\ C20_Id]_vars

\* remove was tried as a sticky state, then supplied to attach
C20_Witness ==
    /\ last.op = "attach"
    /\ last.err = blame("unknown argument remove")
    /\ Truthy(Get(meta.isMethod, "remove"))
    /\ meta.init = <<>>

-----------------------------------------------------------------------------
(* Element names and arguments.  The names a and b are declared through    *)
(* element and upload and as arguments, in any order; a container is       *)
(* attached with each of them as an argument.                              *)

NextElement ==
    \/ \E r \in {<<"a">>, <<"b">>, <<"a", "b">>} : MoreDecl /\ Element(r)
    \/ \E r \in {<<"a">>, <<"b">>, <<"a", "b">>} : MoreDecl /\ Upload(r)
    \/ \E n \in {"a", "b"}, sp \in ArgSpecs : MoreDecl /\ AddArgument(n, sp)
    \/ \E l \in {<<"a">>, <<"b">>, <<"b", "a">>} : MoreDecl /\ Args(l)
    \/ \E a \in {<<>>, <<Arg("a", "v1")>>, <<Arg("b", "v1")>>, <<Arg("b", "v1"), Arg("a", "v2")>>} :
          Building /\ Attach(One(TreeAB), a) /\ UNCHANGED calls

SpecElement == Init /\ [][NextElement]_vars

\* the property names the blueprint has declared through element or upload
ElementNames ==
    { meta.setup[k].action.name :
        k \in { j \in 1..Len(meta.setup) : meta.setup[j].action.kind \in {"element", "upload"} } }

\* the first of the keys that is in the set
RECURSIVE FirstIn(_, _)
FirstIn(keys, set) ==
    IF keys = <<>> THEN Undefined
    ELSE IF Head(keys) \in set THEN Head(keys)
    ELSE FirstIn(Tail(keys), set)

\* a name declared through element or upload is barred and not allowed
C21_Barred ==
    \A n \in ElementNames :
       /\ Truthy(Get(meta.noArgs, n))
       /\ ~Truthy(Get(meta.allowArgs, n))

\* declaring such a name as an argument throws and allows nothing
C21_After ==
    /\ last'.op = "addArgument" /\ last'.name \in ElementNames /\ ~Truthy(last'.spec.forbidden) =>
          /\ last'.err = blame("Forbidden argument name: " \o last'.name)
          /\ meta' = meta
    /\ last'.op = "args" /\ FirstIn(last'.list, ElementNames) # Undefined =>
          /\ Failed(last')
          /\ last'.err.msg \in { "Forbidden argument name: " \o last'.list[k] :
                                    k \in 1..Len(last'.list) }
          /\ \A n \in ElementNames : ~Truthy(Get(meta'.allowArgs, n))

\* element and upload throw on a name that is already an argument, and
\* the name stays an argument
C21_Before ==
    last'.op \in {"element", "upload"} /\ Truthy(Get(meta.allowArgs, last'.name)) =>
       /\ last'.err \in { blame("Forbidden argument name: " \o last'.name),
                          blame("Property name already in use: " \o last'.name) }
       /\ meta'.setup = meta.setup
       /\ meta'.allowArgs = meta.allowArgs

\* attach throws when it is given such a name
C21_Rejected ==
    last'.op = "attach" /\ FirstIn(KeysOf(last'.args), ElementNames) # Undefined =>
       /\ Failed(last')
       /\ ~insts'[Len(insts')].attached
       /\ last'.args[1].key \in ElementNames =>
             last'.err = blame("unknown argument " \o last'.args[1].key)

(* C21. A property name declared through element or upload can never be    *)
(* an instantiation argument, whatever the order of the declarations:      *)
(* declaring the name as an argument after element(name) fails,            *)
(* element(name) fails when the name is already an argument, and attach    *)
(* rejects an argument object that carries the name.                       *)
C21_NeverArgument ==
    /\ []C21_Barred
    /\ [][C21_After /\ C21_Before /\ C21_Rejected]_vars

\* an attach was given b, with a allowed as an argument and b the name of
\* an element
C21_Witness ==
    /\ last.op = "attach"
    /\ KeysOf(last.args) = <<"b">>
    /\ last.err = blame("unknown argument b")
    /\ "b" \in ElementNames
    /\ Truthy(Get(meta.allowArgs, "a"))

-----------------------------------------------------------------------------
(* Initial states.  Machines are made by jRna.stickySM and declared by     *)
(* stickyState with no initial state, with one of the table and with one   *)
(* that the table does not have; the blueprint is attached and the         *)
(* machines are read and switched.                                         *)

Initials == {Undefined, "null", "s", "zz"}

NextInitial ==
    \/ \E impl \in {"docs", "js"}, i \in Initials :
          Len(machines) < MaxMachines /\ NewMachine(impl, SMTable, i) /\ UNCHANGED calls
    \/ \E m \in 1..Len(machines), a \in {Undefined, "t"} :
          CallMachine(m, a, "obj") /\ UNCHANGED calls
    \/ \E n \in {"st", "id"}, i \in Initials :
          Building /\ Len(meta.init) < MaxInit /\ StickyState(n, SMTable, i) /\ UNCHANGED calls
    \/ Building /\ Attach(One(TreeA), <<>>) /\ UNCHANGED calls
    \/ \E i \in 1..Len(insts), a \in {<<>>, <<"t">>} : CallMethod(i, "st", a) /\ UNCHANGED calls

SpecInitial == Init /\ [][NextInitial]_vars

\* the handlers of a table
Handlers(table) == { table[st] : st \in DOMAIN table }

\* an initial state that is given and is no state of the table
Illegal(table, initial) == initial # Undefined /\ initial \notin DOMAIN table

\* jRna.stickySM throws on such an initial state and makes no machine;
\* otherwise the machine made is in the initial state
C22_Constructed ==
    last'.op = "stickySM" =>
       IF Illegal(last'.table, last'.initial)
       THEN /\ Failed(last')
            /\ machines' = machines
       ELSE /\ ~Failed(last')
            /\ Len(machines') = Len(machines) + 1
            /\ machines'[Len(machines')].state = last'.initial
            /\ \A m \in 1..Len(machines) : machines'[m] = machines[m]

\* stickyState throws on such an initial state and declares nothing;
\* otherwise, on a free name, it declares the machine
C22_Declared ==
    last'.op = "stickyState" =>
       IF Illegal(last'.table, last'.initial)
       THEN /\ last'.err.msg = "Illegal initial state: " \o last'.initial
            /\ meta' = meta
       ELSE ~Truthy(Get(meta.known, last'.name)) =>
               /\ ~Failed(last')
               /\ meta'.init = Append(meta.init,
                     [key |-> last'.name,
                      val |-> [kind |-> "stickyState", table |-> last'.table,
                               val |-> last'.initial]])

\* the attach gives the instance a machine in the initial state and calls
\* no handler of the table
C22_Fresh ==
    last'.op = "attach" =>
       \A k \in 1..Len(meta.init) :
          /\ insts'[Len(insts')].sm[meta.init[k].key].state = meta.init[k].val.val
          /\ ~Illegal(meta.init[k].val.table, meta.init[k].val.val)
          /\ \A j \in 1..Len(last'.log) :
                last'.log[j].t = "call" => last'.log[j].name \notin Handlers(meta.init[k].val.table)

\* the first read of a machine returns the initial state and calls nothing
C22_FirstRead ==
    /\ last.op = "stickySM" /\ ~Failed(last) /\ last'.op = "machine"
       /\ last'.m = Len(machines) /\ last'.arg = Undefined
          => last'.ret = last.initial /\ last'.log = <<>>
    /\ last.op = "attach" /\ last'.op = "method" /\ last'.args = <<>>
       /\ last'.inst = Len(insts) /\ "st" \in DOMAIN insts[last'.inst].sm
          => /\ last'.log = <<>>
             /\ insts'[last'.inst].sm["st"].state = meta.init[1].val.val

-----------------------------------------------------------------------------
(* Contract violations.  Each kind of violation is provoked: a name        *)
(* declared twice, a reserved argument name, a receptor that the           *)
(* container has twice or not at all, an argument that is not allowed, a   *)
(* state that the table does not have, a callback and a template and a     *)
(* receptor identifier that are malformed.                                 *)

TreeB == [n |-> 2, parent |-> <<0, 1>>, type |-> <<1, 1>>, cls |-> << <<>>, <<"jrna-b">> >>]

NextBlame ==
    \/ \E r \in {<<"a">>, <<"a", "b", "c">>, <<>>} : MoreDecl /\ Output(r)
    \/ \E l \in {<<"st">>, <<"id">>} : MoreDecl /\ Args(l)
    \/ \E i \in {"s", "zz"} : MoreDecl /\ StickyState("st", Table, i)
    \/ \E cb \in {Fn("f"), <<>>} : MoreDecl /\ Click("a", cb)
    \/ \E str \in {<<>>, <<TreeA>>, <<TextNode>>, <<TreeA, TreeA>>} :
          MoreDecl /\ Html([given |-> TRUE, str |-> str])
    \/ \E tree \in {TreeA, TreeB, TreeDup}, a \in {<<>>, <<Arg("st", "zz")>>, <<Arg("zz", "v1")>>} :
          Building /\ Attach(One(tree), a) /\ UNCHANGED calls
    \/ \E a \in {<<>>, <<Arg("zz", "v1")>>} : Building /\ Instantiate(a) /\ UNCHANGED calls
    \/ \E target \in {List, [kind |-> "$", nodes |-> <<>>]} :
          Building /\ AppendTo(target, <<>>) /\ UNCHANGED calls

SpecBlame == Init /\ [][NextBlame]_vars

\* the calls that declare and the calls that bind
BlameOps == { "output", "args", "stickyState", "click", "html",
              "attach", "instantiate", "appendTo" }

\* the messages of the violations, by kind
DuplicateName == { "Property name already in use: " \o n : n \in {"a", "st"} }

ForbiddenArgument == { "Forbidden argument name: " \o n : n \in {"id", "st"} }

DuplicateReceptor == { "Duplicate element with class " \o prefix \o id : id \in {"a"} }

MissingReceptor == { "Failed to locate class " \o prefix \o id : id \in {"a"} }

DisallowedArgument == { "unknown argument " \o k : k \in {"st", "zz"} }

UndeclaredState == { "Illegal initial state: zz", "Illegal state switch s->zz" }

MalformedCallback == { "Unexpected callback argument" }

MalformedTemplate == { "Attempt to use empty HTML", "Attempt to use non-element as HTML container",
                       "Attempt to create multiple tag HTML",
                       "Trying to instantiate with an empty html()",
                       "Cannot append to a missing element" }

MalformedReceptor == { "jRna receptor must be a string or 2-element array" }

Violations ==
    DuplicateName \cup ForbiddenArgument \cup DuplicateReceptor \cup MissingReceptor
    \cup DisallowedArgument \cup UndeclaredState \cup MalformedCallback
    \cup MalformedTemplate \cup MalformedReceptor

(* C23. Every contract violation raised by a declaration or by attach,     *)
(* instantiate or appendTo is reported by an error whose message carries   *)
(* the source location at which the blueprint was declared.                *)
C23_Located ==
    last.op \in BlameOps /\ last.err.msg \in Violations => last.err.origin

\* what the code does: all of them but the duplicate receptor and the
\* malformed receptor identifier carry the location
C23_LocatedButTwo ==
    /\ last.op \in BlameOps /\ Failed(last) => last.err.msg \in Violations
    /\ last.op \in BlameOps /\ last.err.msg \in Violations =>
          (last.err.origin <=> last.err.msg \notin DuplicateReceptor \cup MalformedReceptor)

\* an attach has found the receptor a twice and its error has no location
C23_Witness ==
    /\ last.op = "attach"
    /\ last.container = One(TreeDup)
    /\ last.err = Throw("Duplicate element with class jrna-a")

-----------------------------------------------------------------------------
(* Events and attach.  The blueprint declares listeners of the four kinds, *)
(* an initializer and attach hooks, one of which throws; containers are    *)
(* attached, with an argument that is not allowed too, and their nodes     *)
(* receive events.                                                         *)

NextEvents ==
    \/ MoreSetup /\ Click("a", Fn("f"))
    \/ MoreSetup /\ On("change", "a", Fn("f"))
    \/ MoreSetup /\ Toggle("a", Fn("f"), Fn("g"))
    \/ MoreSetup /\ StickyClick("a", "lock", Fn("f"))
    \/ \E h \in {"h1", "boom"} : MoreHooks /\ OnAttach(h)
    \/ Building /\ meta.init = <<>> /\ InitDecl("p", "h2") /\ UNCHANGED calls
    \/ \E a \in {<<>>, <<Arg("zz", "v1")>>} :
          Len(insts) < MaxInst /\ Attach(One(TreeAB), a) /\ UNCHANGED calls
    \/ \E i \in 1..Len(insts), ev \in {"click", "change"} :
          Deliver(i, Node(2), ev) /\ UNCHANGED calls

SpecEvents == Init /\ [][NextEvents]_vars

\* the calls of listener callbacks in a log
Handled(log) == { j \in 1..Len(log) : log[j].t = "listener"
                                        \/ (log[j].t = "call" /\ log[j].name \in {"f", "g"}) }

\* an attach itself delivers no event and calls no listener callback
C24_NotDuring ==
    last'.op = "attach" => Handled(last'.log) = {}

\* the listeners of an instance are those its attach registered
C24_Registered ==
    \A i \in 1..Len(insts) : insts'[i].listeners = insts[i].listeners

\* an instance is attached exactly when every setup action, initializer,
\* argument and hook of its attach has run and none has failed
C24_Finished ==
    last'.op = "attach" /\ last'.made = 1 =>
       (insts'[Len(insts')].attached <=>
          /\ ~Failed(last')
          /\ Len(SelectSeq(last'.log, IsSetupEv)) = Len(meta.setup)
          /\ Len(SelectSeq(last'.log, IsHookEv)) = Len(meta.onAttach)
          /\ Cardinality({ j \in 1..Len(last'.log) : last'.log[j].t = "init" }) = Len(meta.init)
          /\ Cardinality({ j \in 1..Len(last'.log) : last'.log[j].t = "assign" })
                = Len(last'.args))

(* C24. No callback that an event triggers on an instance - of click,      *)
(* toggle, stickyClick or on - runs before the attach that creates the     *)
(* instance has completed, that is before all its setup actions,           *)
(* initializers, argument assignments and attach hooks have finished.      *)
C24_AfterAttach ==
    last.op = "event" /\ Handled(last.log) # {} => insts[last.inst].attached

\* as amended: no callback runs during the attach, and on an instance
\* that attach returned every step of the attach has finished
C24_AfterReturn == [][C24_NotDuring /\ C24_Registered /\ C24_Finished]_vars

\* a click has called f on an instance whose attach had thrown in a hook
C24_Witness ==
    /\ last.op = "event" /\ Handled(last.log) # {}
    /\ ~insts[last.inst].attached
    /\ "boom" \in { meta.onAttach[k] : k \in 1..Len(meta.onAttach) }

-----------------------------------------------------------------------------
(* Values.  def is given an object, initArray or initObject a container;   *)
(* two containers are attached; entries are added, removed and replaced    *)
(* through the properties of either instance and in the container that     *)
(* was given to the declaration.                                           *)

Entries == {"x", "y"}

\* what adding, removing or replacing one entry makes of the entries c
Mutated(c) ==
    { d \in { Append(c, e) : e \in Entries } : Len(d) <= Cardinality(Entries) }
    \cup (IF c = <<>> THEN {} ELSE { SubSeq(c, 1, Len(c) - 1) })
    \cup (IF c = <<>> THEN {} ELSE { [c EXCEPT ![1] = e] : e \in Entries \ {c[1]} })

NextValues ==
    \/ Building /\ "p" \notin Keys(meta.init) /\ DefObject("p", "o1", <<"x">>) /\ UNCHANGED calls
    \/ Building /\ "q" \notin Keys(meta.init) /\ InitArrayOf("q", "t1", <<"x">>) /\ UNCHANGED calls
    \/ Building /\ "q" \notin Keys(meta.init) /\ InitObjectOf("q", "t1", <<"y">>) /\ UNCHANGED calls
    \/ \E d \in PageDocs : Room /\ ~InUse(d) /\ Attach(One(Doc(TreeA, d)), <<>>) /\ UNCHANGED calls
    \/ \E i \in 1..Len(insts), n \in {"p", "q"} :
          /\ n \in Keys(meta.init)
          /\ \E c \in Mutated(Contents(meta, insts[i], ReadProp(insts[i], n))) :
                MutateVia(i, n, c) /\ UNCHANGED calls
    \/ /\ "q" \in Keys(meta.init)
       /\ \E c \in Mutated(meta.held["t1"]) : MutateHeld("t1", c) /\ UNCHANGED calls

SpecValues == Init /\ [][NextValues]_vars

\* the entries seen through a property of an instance, now and next
Seen(i, n) == Contents(meta, insts[i], ReadProp(insts[i], n))

SeenNext(i, n) == Contents(meta', insts'[i], ReadProp(insts'[i], n))

\* every instance holds the object that def was given, and a change made
\* through one instance shows through every instance
C25_Shared ==
    /\ last'.op = "attach" /\ "p" \in Keys(meta.init) =>
          ReadProp(insts'[Len(insts')], "p") = "o1"
    /\ \A i \in 1..Len(insts) :
          last'.op = "mutate" /\ last'.inst = i /\ last'.name = "p" =>
             /\ SeenNext(i, "p") = last'.val
             /\ SeenNext(i, "p") # Seen(i, "p")
             /\ \A j \in 1..Len(insts) : SeenNext(j, "p") = last'.val

\* every instance gets a container of its own with the entries the given
\* one has at the attach
C25_Copy ==
    last'.op = "attach" /\ "q" \in Keys(meta.init) =>
       /\ ReadProp(insts'[Len(insts')], "q") # "t1"
       /\ \A j \in 1..Len(insts) : ReadProp(insts'[Len(insts')], "q") # ReadProp(insts[j], "q")
       /\ SeenNext(Len(insts'), "q") = Get(meta.held, "t1")

\* a change of one instance's container shows in that container alone; a
\* change of the given container shows in no instance
C25_Apart ==
    /\ \A i \in 1..Len(insts) :
          last'.op = "mutate" /\ last'.inst = i /\ last'.name = "q" =>
             /\ SeenNext(i, "q") = last'.val
             /\ SeenNext(i, "q") # Seen(i, "q")
             /\ \A j \in 1..Len(insts) : j # i => SeenNext(j, "q") = Seen(j, "q")
             /\ meta'.held = meta.held
    /\ last'.op = "mutate" /\ last'.inst = 0 =>
          /\ Get(meta'.held, "t1") # Get(meta.held, "t1")
          /\ \A j \in 1..Len(insts) : SeenNext(j, "q") = Seen(j, "q")

(* C25. A value that is no function, declared with def(name, v), is the    *)
(* same reference on every instance: a change of it through one instance   *)
(* is seen through every other.  A container declared with initArray or    *)
(* initObject is copied for each instance: adding, removing or replacing   *)
(* entries of one instance's container changes neither the container of    *)
(* another instance nor the container given at the declaration.            *)
C25_Values == [][C25_Shared /\ C25_Copy /\ C25_Apart]_vars

\* two instances see the same entries of p, changed since the declaration,
\* and each other entries of q, both unlike the given container
C25_Witness ==
    /\ Len(insts) = 2
    /\ {"p", "q"} \subseteq Keys(meta.init)
    /\ Seen(1, "p") = Seen(2, "p") /\ Seen(1, "p") # <<"x">>
    /\ Seen(1, "q") # Seen(2, "q")
    /\ Seen(1, "q") # Get(meta.held, "t1") /\ Seen(2, "q") # Get(meta.held, "t1")
    /\ last.op = "mutate"

-----------------------------------------------------------------------------
(* Markup.  html() is given strings of nothing, of one element, of text,   *)
(* of two elements; htmlFrom is given nothing, a selection of no node, of  *)
(* one element, of one Text node, of two elements; then the blueprint is   *)
(* instantiated.                                                           *)

Selections ==
    { [kind |-> "undefined", nodes |-> <<>>], [kind |-> "$", nodes |-> <<>>],
      One(Plain), One(TreeA), One(TextNode), [kind |-> "$", nodes |-> <<Plain, TreeA>>] }

NextMarkup ==
    \/ \E str \in HtmlStrings : Building /\ Html([given |-> TRUE, str |-> str]) /\ UNCHANGED calls
    \/ \E sel \in Selections : Building /\ HtmlFrom(sel) /\ UNCHANGED calls
    \/ MoreSetup /\ Output(<<"a">>)
    \/ MoreHooks /\ OnAttach("h1")
    \/ Len(insts) < MaxInst /\ Instantiate(<<>>) /\ UNCHANGED calls

SpecMarkup == Init /\ [][NextMarkup]_vars

\* the markup of a call has exactly one root, an element
OneElement(str) == Len(str) = 1 /\ str[1].type[1] = 1

\* the markup that the node of a selection stands for
MarkupOf(sel) == IF sel.kind = "$" /\ Len(sel.nodes) = 1 THEN <<sel.nodes[1]>> ELSE <<>>

\* html(markup) succeeds exactly on one root element and then caches it;
\* a failed call leaves the blueprint as it was
C26_Html ==
    last'.op = "html" /\ last'.given =>
       \/ ~Failed(last') /\ meta'.master # <<>> /\ meta'.master[1].type[1] = 1
       \/ Failed(last') /\ meta' = meta

\* the same of htmlFrom(selector) and the markup of the selected node
C26_HtmlFrom ==
    last'.op = "htmlFrom" =>
       \/ /\ ~Failed(last')
          /\ OneElement(MarkupOf(last'.selector))
          /\ meta'.master = <<Doc(last'.selector.nodes[1], "master")>>
       \/ Failed(last') /\ meta' = meta

\* as C26_HtmlFrom, but a selection of one node that is no element is
\* accepted and leaves the blueprint without a template
C26_HtmlFromNode ==
    last'.op = "htmlFrom" =>
       \/ /\ ~Failed(last')
          /\ OneElement(MarkupOf(last'.selector))
          /\ meta'.master = <<Doc(last'.selector.nodes[1], "master")>>
       \/ /\ ~Failed(last')
          /\ Len(MarkupOf(last'.selector)) = 1 /\ ~OneElement(MarkupOf(last'.selector))
          /\ meta'.master = <<>>
       \/ Failed(last') /\ meta' = meta

\* instantiate clones the template that the last successful call cached
C26_Clone ==
    last'.op = "instantiate" /\ meta.master # <<>> =>
       /\ last'.err # blame("Trying to instantiate with an empty html()")
       /\ last'.made = 1 => insts'[Len(insts')].container = cloneNode(meta.master[1], Len(insts'))

C26_HtmlAlone == [][C26_Html /\ C26_HtmlFromNode /\ C26_Clone]_vars

(* C26. html(markup) and htmlFrom(selector) succeed only when the markup   *)
(* parses to exactly one root node that is an element; empty markup,       *)
(* several roots or a root that is no element make the call fail, and a    *)
(* failed call leaves the template cached before unchanged, so that a      *)
(* later instantiate still clones the earlier template.                    *)
C26_OneRootElement == [][C26_Html /\ C26_HtmlFrom /\ C26_Clone]_vars

\* htmlFrom was given a selection of one Text node on a blueprint that had
\* a template
C26_Witness ==
    /\ last.op = "htmlFrom" /\ last.selector = One(TextNode)
    /\ last.before.master # <<>>
    /\ ~Failed(last) /\ meta.master = <<>>

-----------------------------------------------------------------------------
(* Nested instances.  A blueprint of a few declarations over the receptors *)
(* a and b is attached to a small subtree, one inner element of which is   *)
(* the container of an instance of another blueprint.                      *)

NextNested ==
    \/ MoreSetup /\ Output(<<"a">>)
    \/ \E id \in {"a", "b"} : MoreSetup /\ Click(id, Fn("f"))
    \/ Building /\ \E tree \in Trees : \E k \in 2..tree.n :
          tree.type[k] = 1 /\ AttachAround(One(tree), k, <<>>) /\ UNCHANGED calls

SpecNested == Init /\ [][NextNested]_vars

\* the elements that lie inside the nested instance: below its container
Inside(tree, k) == { walkTree(tree, k)[j] : j \in 1..Len(walkTree(tree, k)) } \ {k}

\* the elements that carry the class and do not lie inside the nested
\* instance
Outer(tree, k, cls) == Carriers(tree, cls) \ Inside(tree, k)

(* C27. Resolution never matches a marker that lies inside the nested      *)
(* instance of another blueprint within the container's subtree: such a    *)
(* marker neither satisfies a wanted receptor of the outer blueprint nor   *)
(* counts as a duplicate of it.                                            *)
C27_NestedIgnored ==
    last.op = "attach" /\ last.container.kind = "$" =>
       /\ ~Failed(last) <=>
             \A cls \in WantedClasses : Cardinality(Outer(Subtree, last.nested, cls)) = 1
       /\ ~Failed(last) =>
             \A k \in 1..Len(meta.setup) :
                \E j \in Outer(Subtree, last.nested, prefix \o meta.setup[k].id) :
                   insts[Len(insts)].element[meta.setup[k].id] = Node(j)

\* what holds instead: the elements of the nested instance count as any
\* other element of the subtree
C27_NestedCounted ==
    last.op = "attach" /\ last.container.kind = "$" =>
       /\ ~Failed(last) <=> \A cls \in WantedClasses : Cardinality(Carriers(Subtree, cls)) = 1
       /\ ~Failed(last) =>
             \A k \in 1..Len(meta.setup) :
                \E j \in Carriers(Subtree, prefix \o meta.setup[k].id) :
                   insts[Len(insts)].element[meta.setup[k].id] = Node(j)

\* the receptor a of the outer blueprint has resolved to an element inside
\* the nested instance
C27_Witness ==
    /\ last.op = "attach" /\ ~Failed(last) /\ last.made = 1
    /\ \E k \in 1..Len(meta.setup) : meta.setup[k].id = "a"
    /\ \E j \in Inside(Subtree, last.nested) : insts[1].element["a"] = Node(j)

-----------------------------------------------------------------------------
(* Failed declarations.  The names p and q are declared as a value, a      *)
(* state machine, an element, an upload, an output and as arguments, in    *)
(* any order, so that calls fail at each of their steps; then a container  *)
(* is attached, with p as an argument or without.                          *)

NextAtomic ==
    \/ \E n \in {"p", "q"} : MoreDecl /\ Def(n, "v1")
    \/ MoreDecl /\ StickyState("p", Table, "s")
    \/ MoreDecl /\ StickyState("p", Table, "zz")
    \/ \E n \in {"p", "q"} : MoreDecl /\ Element(<<"a", n>>)
    \/ MoreDecl /\ Upload(<<"a", "p">>)
    \/ MoreDecl /\ Output(<<"a", "p">>)
    \/ \E sp \in ArgSpecs : MoreDecl /\ AddArgument("p", sp)
    \/ \E l \in {<<"p">>, <<"q", "p">>} : MoreDecl /\ Args(l)
    \/ \E a \in {<<>>, <<Arg("p", "x")>>, <<Arg("q", "x")>>} :
          Building /\ Attach(One(TreeA), a) /\ UNCHANGED calls

SpecAtomic == Init /\ [][NextAtomic]_vars

AtomicOps == {"def", "stickyState", "element", "upload", "output", "addArgument", "args"}

(* C28. A declaration call that fails leaves the blueprint exactly as it   *)
(* was before the call: the names in use, the forbidden and the allowed    *)
(* argument names, the method flags, the initializers and the setup        *)
(* actions are all as before, so that every later declaration and attach   *)
(* goes as if the failed call had never been made.                         *)
C28_Atomic == [][last'.op \in AtomicOps /\ Failed(last') => meta' = meta]_vars

\* what a failed call does leave as it was, and what each kind of call
\* may have written before it failed
C28_Partial ==
    [][last'.op \in AtomicOps /\ Failed(last') =>
         /\ meta'.setup = meta.setup /\ meta'.wanted = meta.wanted
         /\ meta'.init = meta.init /\ meta'.noArgs = meta.noArgs
         /\ meta'.onAttach = meta.onAttach /\ meta'.master = meta.master
         /\ meta'.known # meta.known => last'.op \in {"element", "upload", "output"}
         /\ meta'.isMethod # meta.isMethod => last'.op = "stickyState"
         /\ meta'.allowArgs # meta.allowArgs \/ meta'.assignArgs # meta.assignArgs
               => last'.op = "args"]_vars

\* p was declared a plain value and allowed as an argument; a stickyState
\* on the taken name p has failed, and the attach that is given p calls
\* the value as a method
C28_Witness ==
    /\ last.op = "attach" /\ last.args = <<Arg("p", "x")>>
    /\ last.err = Throw("TypeError: p is not a function")
    /\ meta.init = <<[key |-> "p", val |-> [kind |-> "def", val |-> "v1"]]>>

-----------------------------------------------------------------------------
(* Values and arguments.  The names p and q are declared as values of each *)
(* kind and as arguments under each spec, in any order; then a container   *)
(* is attached with p, with p and q, or with no argument.                  *)

NextAssign ==
    \/ \E n \in {"p", "q"}, sp \in ArgSpecs : MoreDecl /\ AddArgument(n, sp)
    \/ \E n \in {"p", "q"}, v \in {"v1", "f"} : MoreDecl /\ Def(n, v)
    \/ \E n \in {"p", "q"} : MoreDecl /\ InitDecl(n, "g")
    \/ MoreDecl /\ InitArray("p", "arr")
    \/ MoreDecl /\ InitObject("p", "obj")
    \/ \E a \in {<<>>, <<Arg("p", "x")>>, <<Arg("p", "x"), Arg("q", "y")>>} :
          Building /\ Attach(One(TreeA), a) /\ UNCHANGED calls

SpecAssign == Init /\ [][NextAssign]_vars

\* key in args, and args[key]
Supplied(arguments, key) == \E k \in 1..Len(arguments) : arguments[k].key = key

Given(arguments, key) == arguments[CHOOSE k \in 1..Len(arguments) : arguments[k].key = key].val

\* what the initializer e makes for the instance
Initial(e, inst) ==
    CASE e.kind = "def" -> e.val
      [] e.kind = "init" -> Ret(e.val)
      [] e.kind \in {"initArray", "initObject"} -> CopyOf(e.val, inst.id)

\* the names that def, init, initArray, initObject declared as no method
ValueNames ==
    { k \in 1..Len(meta.init) :
         /\ meta.init[k].val.kind \in {"def", "init", "initArray", "initObject"}
         /\ ~Truthy(Get(meta.isMethod, meta.init[k].key)) }

(* C29. After every successful attach each name declared with def, init,   *)
(* initArray or initObject that is no method holds on the instance the     *)
(* value its initializer made or, when the caller gave an argument of that *)
(* name, the value of the argument - whether the argument name is          *)
(* assignable or only allowed.                                             *)
C29_ValueOrArgument ==
    last.op = "attach" /\ ~Failed(last) /\ last.made = 1 =>
       \A k \in ValueNames :
          ReadProp(insts[Len(insts)], meta.init[k].key) =
             IF Supplied(last.args, meta.init[k].key)
             THEN Given(last.args, meta.init[k].key)
             ELSE Initial(meta.init[k].val, insts[Len(insts)])

\* what holds instead: a given argument that is allowed and not assignable
\* leaves the name without a value
C29_ValueArgumentOrNone ==
    last.op = "attach" /\ ~Failed(last) /\ last.made = 1 =>
       \A k \in ValueNames :
          ReadProp(insts[Len(insts)], meta.init[k].key) =
             IF ~Supplied(last.args, meta.init[k].key)
             THEN Initial(meta.init[k].val, insts[Len(insts)])
             ELSE IF Truthy(Get(meta.assignArgs, meta.init[k].key))
             THEN Given(last.args, meta.init[k].key)
             ELSE Undefined

\* an attach given p has succeeded on a blueprint that declares the value
\* p and allows the argument p without assigning it
C29_Witness ==
    /\ last.op = "attach" /\ ~Failed(last) /\ last.made = 1
    /\ last.args = <<Arg("p", "x")>>
    /\ \E k \in ValueNames : meta.init[k].key = "p"
    /\ Truthy(Get(meta.allowArgs, "p")) /\ ~Truthy(Get(meta.assignArgs, "p"))
    /\ ReadProp(insts[1], "p") = Undefined

-----------------------------------------------------------------------------
(* appendTo of the blueprint.  The blueprint has a template, a setup       *)
(* action, an initializer, an argument and attach hooks, one of which      *)
(* throws; it is appended to one node, to no node, to two nodes and to     *)
(* nothing, with the argument or without.                                  *)

Parents2 == [kind |-> "$", nodes |-> <<"list", "menu">>]

Targets == { List, [kind |-> "$", nodes |-> <<>>], Parents2, [kind |-> "undefined", nodes |-> <<>>] }

NextAppend ==
    \/ Building /\ meta.master = <<>> /\ Html([given |-> TRUE, str |-> <<TreeA>>]) /\ UNCHANGED calls
    \/ MoreSetup /\ Output(<<"a">>)
    \/ MoreSetup /\ Click("a", Fn("f"))
    \/ Building /\ meta.init = <<>> /\ InitDecl("q", "h2") /\ UNCHANGED calls
    \/ Building /\ ~Truthy(Get(meta.allowArgs, "p")) /\ Args(<<"p">>) /\ UNCHANGED calls
    \/ \E h \in {"h1", "boom"} : MoreHooks /\ OnAttach(h)
    \/ \E t \in Targets, a \in {<<>>, <<Arg("p", "x")>>} :
          Room /\ AppendTo(t, a) /\ UNCHANGED calls

SpecAppend == Init /\ [][NextAppend]_vars

\* the parent resolves to exactly one node
OneNode(t) == t.kind = "$" /\ Len(t.nodes) = 1

\* everything that appendTo ran was run by instantiate, on a container
\* that is a child of nothing; a failure of instantiate is the failure of
\* appendTo
C30_Instantiated ==
    last'.op = "appendTo" =>
       LET r == instantiate(meta, Len(insts) + 1, last'.args) IN
       /\ last'.log = r.log
       /\ Failed(r) => last'.err = r.err /\ last'.returned = <<>>
       /\ ~Failed(r) => r.made[1].parent = "none"

\* a parent that is not one node fails the call after every step of
\* instantiate has run, and nothing is returned
C30_BadParent ==
    last'.op = "appendTo" /\ ~OneNode(last'.target)
       /\ ~Failed(instantiate(meta, Len(insts) + 1, last'.args)) =>
       /\ last'.err = checkElement(last'.target, "append to").err
       /\ Failed(last')
       /\ last'.returned = <<>>
       /\ Len(SelectSeq(last'.log, IsSetupEv)) = Len(meta.setup)
       /\ Len(SelectSeq(last'.log, IsInitEv)) = Len(meta.init)
       /\ Len(SelectSeq(last'.log, IsArgEv)) = Len(last'.args)
       /\ Len(SelectSeq(last'.log, IsHookEv)) = Len(meta.onAttach)
       /\ insts'[Len(insts')].parent = "none"

\* with one node for a parent the instance of instantiate is returned, its
\* container a child of the parent
C30_GoodParent ==
    last'.op = "appendTo" /\ OneNode(last'.target)
       /\ ~Failed(instantiate(meta, Len(insts) + 1, last'.args)) =>
       /\ ~Failed(last')
       /\ last'.returned = <<instantiate(meta, Len(insts) + 1, last'.args).made[1].id>>
       /\ insts' = Append(insts, [instantiate(meta, Len(insts) + 1, last'.args).made[1]
                                     EXCEPT !.parent = last'.target.nodes[1]])

(* C30. appendTo(parent, args) of the blueprint validates parent only      *)
(* after instantiate(args) has completed: the attach hooks run while the   *)
(* new container is no child of parent yet, and when parent is not exactly *)
(* one node the call fails after every setup action, initializer, argument *)
(* assignment and attach hook has run, and returns no instance.  When      *)
(* parent is valid the instance returned is the one instantiate made and   *)
(* its container is a child of parent.                                     *)
C30_ParentLast == [][C30_Instantiated /\ C30_BadParent /\ C30_GoodParent]_vars

\* appendTo on no node has failed after a setup action, an initializer,
\* the assignment of p and a hook have run
C30_Witness ==
    /\ last.op = "appendTo" /\ last.target = [kind |-> "$", nodes |-> <<>>]
    /\ last.args = <<Arg("p", "x")>>
    /\ last.err = blame("Cannot append to a missing element")
    /\ last.returned = <<>>
    /\ SetupEvs # <<>> /\ InitEvs # <<>> /\ ArgEvs # <<>> /\ HookEvs # <<>>
    /\ insts # <<>> /\ insts[Len(insts)].parent = "none"

-----------------------------------------------------------------------------
(* Removal, again.  As above, but remove is called on the instance at any  *)
(* time, also after a removal has completed.                               *)

NextInert ==
    \/ \E h \in {"h1", "boom"} :
          Len(meta.onRemove) < MaxHooks /\ OnRemove(h) /\ UNCHANGED calls
    \/ Building /\ Attach(One(Doc(TreeA, "c1")), <<>>) /\ UNCHANGED calls
    \/ \E i \in 1..Len(insts), cb \in {"f", "g"} :
          Len(insts[i].onRemove) < MaxHooks + 1 /\ InstOnRemove(i, cb) /\ UNCHANGED calls
    \/ \E i \in 1..Len(insts) : Remove(i) /\ UNCHANGED calls

SpecInert == Init /\ [][NextInert]_vars

\* a removal of the instance has completed: the container, bound with a
\* parent, has none
Removed(inst) == inst.parent = "none"

IsUnhookEv(e) == e.t = "unhook"

(* C31. An instance is inert after its removal: once inst.remove() has     *)
(* completed, a further inst.remove() on the instance invokes no removal   *)
(* hook, so that each removal hook runs at most once in the life of the    *)
(* instance.                                                               *)
C31_Inert ==
    [][\A i \in 1..Len(insts) :
          last'.op = "remove" /\ last'.inst = i /\ Removed(insts[i]) =>
             SelectSeq(last'.log, IsUnhookEv) = <<>>]_vars

\* what holds instead: every call of remove runs the hooks from the first
\* on, whether a removal has completed before or not
C31_RunsAgain ==
    [][\A i \in 1..Len(insts) :
          last'.op = "remove" /\ last'.inst = i =>
             /\ Len(SelectSeq(last'.log, IsUnhookEv)) = (IF Stop(insts[i]) > Len(insts[i].onRemove) THEN Len(insts[i].onRemove) ELSE Stop(insts[i]))
             /\ insts[i].onRemove # <<>> =>
                   last'.log[1] = Ev("unhook", 1, insts[i].onRemove[1], Undefined, InstId(i), <<>>)
             /\ insts'[i].onRemove = insts[i].onRemove]_vars

\* a removal that followed a completed removal has run the hook again
C31_Witness ==
    /\ last.op = "remove" /\ ~Failed(last)
    /\ Len(last.log) = 2 /\ last.log[1].t = "unhook" /\ last.log[1].name = "h1"
    /\ last.log[2].t = "detach" /\ last.log[2].val = "none"

-----------------------------------------------------------------------------
(* A handler that throws.  Under SpecSM the state u has a handler that     *)
(* throws.                                                                 *)

\* the step is a call for a declared state that is not the current one
Transition ==
    /\ last'.op = "machine" /\ last'.arg # Undefined
    /\ Truthy(Get(machines[last'.m].table, last'.arg))
    /\ ~(IF last'.impl = "js" THEN LooseEq(last'.arg, last'.before) ELSE last'.arg = last'.before)

(* C32. In a transition to a declared state other than the current one the *)
(* handler runs before the state is updated: while it runs the machine     *)
(* still holds the old state, and when it throws the state stays the old   *)
(* one, so that a later call with the same target calls the handler again. *)
C32_HandlerFirst ==
    [][Transition =>
         /\ last'.before = machines[last'.m].state
         /\ last'.log = <<Call(machines[last'.m].table[last'.arg], last'.this,
                               <<last'.before, last'.arg>>)>>
         /\ last'.during = last'.before
         /\ machines'[last'.m].state =
               IF Throws(machines[last'.m].table[last'.arg]) THEN last'.before ELSE last'.arg
         /\ Throws(machines[last'.m].table[last'.arg]) <=> Failed(last')]_vars

\* the handler of u has thrown on a machine that had moved to t, which is
\* still in t
C32_Witness ==
    /\ last.op = "machine" /\ last.arg = "u" /\ last.before = "t"
    /\ last.err = Throw("thrown by handler")
    /\ last.log # <<>> /\ last.during = "t"
    /\ machines[last.m].state = "t"

\* the state of every machine is its initial value or a state of its table
C33_InTable ==
    \A m \in 1..Len(machines) :
       \/ machines[m].state = machines[m].initial
       \/ Truthy(Get(machines[m].table, machines[m].state))

\* a state that is not undefined never becomes undefined, and a transition
\* that succeeded leaves a state that is not undefined
C33_Defined ==
    \A m \in 1..Len(machines) :
       /\ machines[m].state # Undefined => machines'[m].state # Undefined
       /\ last'.op = "machine" /\ last'.m = m /\ last'.log # <<>> /\ ~Failed(last') =>
             machines'[m].state # Undefined
       /\ last'.op = "machine" /\ last'.m = m /\ last'.arg = Undefined =>
             /\ last'.ret = machines[m].state
             /\ machines'[m].state = machines[m].state
             /\ last'.log = <<>>

-----------------------------------------------------------------------------
(* A shared lock.  Sticky clicks on the receptors a and b, with callbacks  *)
(* one of which throws, all name the lock property `lock`; two containers  *)
(* are attached; their nodes are clicked and their locks assigned, in any  *)
(* order.                                                                  *)

NextLock ==
    \/ \E id \in {"a", "b"}, cb \in {"f", "g", "boom"} :
          MoreSetup /\ StickyClick(id, "lock", Fn(cb))
    \/ \E d \in PageDocs : Room /\ ~InUse(d) /\ Attach(One(Doc(TreeAB, d)), <<>>) /\ UNCHANGED calls
    \/ \E i \in 1..Len(insts), n \in 2..3 : Deliver(i, Node(n), "click") /\ UNCHANGED calls
    \/ \E i \in 1..Len(insts), v \in {"false", "true"} : SetProp(i, "lock", v) /\ UNCHANGED calls

SpecLock == Init /\ [][NextLock]_vars

\* the callbacks that were started in a log
Started(log) == { j \in 1..Len(log) : log[j].t = "call" }

\* an activation while the lock is true changes nothing; one while it is
\* false starts one callback, of the first declaration on the node, and
\* the lock is true from before that callback on
C34_Activation ==
    \A i \in 1..Len(insts) :
       last'.op = "event" /\ last'.inst = i =>
          /\ Truthy(ReadProp(insts[i], "lock")) =>
                Started(last'.log) = {} /\ insts'[i] = insts[i]
          /\ ~Truthy(ReadProp(insts[i], "lock")) /\ Stickies(insts[i], last'.node) # {} =>
                /\ Cardinality(Started(last'.log)) = 1
                /\ last'.log[1].t = "listener" /\ last'.log[2].t = "call"
                /\ ReadProp(insts'[i], "lock") = "true"
          /\ Stickies(insts[i], last'.node) = {} => Started(last'.log) = {}

\* a lock that is true stays true until it is assigned on that instance
C34_Held ==
    \A i \in 1..Len(insts) :
       Truthy(ReadProp(insts[i], "lock")) /\ ~Truthy(ReadProp(insts'[i], "lock")) =>
          last'.op = "set" /\ last'.inst = i /\ ~Truthy(last'.val)

\* a click or an assignment on one instance leaves the others as they were
C34_Own ==
    \A i, j \in 1..Len(insts) :
       last'.op \in {"event", "set"} /\ last'.inst = i /\ j # i => insts'[j] = insts[j]

(* C34. For several stickyClick declarations that name the same lock, on   *)
(* one instance the lock is set to true before the callback starts, so     *)
(* that between two resets of the lock to a false value at most one        *)
(* callback of all these declarations is started, whichever receptors are  *)
(* activated and in whatever order; an activation while the lock is true   *)
(* changes nothing.  Locks of different instances do not interact.         *)
C34_SharedLock == [][C34_Activation /\ C34_Held /\ C34_Own]_vars

\* a click on b of the second instance has started nothing: its lock is
\* held since a click on a, whose callback threw; the first instance's
\* lock is free
C34_Witness ==
    /\ Len(insts) = 2 /\ Len(meta.setup) = 2
    /\ meta.setup[1].id = "a" /\ meta.setup[1].action.cb = Fn("boom")
    /\ meta.setup[2].id = "b"
    /\ last.op = "event" /\ last.inst = 2 /\ last.node = Node(3)
    /\ Started(last.log) = {} /\ last.log # <<>>
    /\ ReadProp(insts[2], "lock") = "true"
    /\ ~Truthy(ReadProp(insts[1], "lock"))

-----------------------------------------------------------------------------
(* The argument tables.  The names a, b and id are declared as elements,   *)
(* uploads and arguments of every spec, in any order, many of the calls    *)
(* failing.                                                                *)

NextTables ==
    \/ \E r \in {<<"a">>, <<"b">>, <<"a", "id">>} : MoreDecl /\ Element(r)
    \/ \E r \in {<<"a">>, <<"b">>, <<"a", "id">>} : MoreDecl /\ Upload(r)
    \/ \E n \in {"a", "b", "id"}, sp \in ArgSpecs : MoreDecl /\ AddArgument(n, sp)
    \/ \E l \in {<<"a">>, <<"id">>, <<"b", "a">>, <<"a", "id">>} : MoreDecl /\ Args(l)

SpecTables == Init /\ [][NextTables]_vars

TableNames == DOMAIN meta.allowArgs \cup DOMAIN meta.noArgs \cup DOMAIN meta.assignArgs

\* id is allowed and forbidden, no other name is both; what is assignable
\* is allowed
C35_Tables ==
    /\ Truthy(Get(meta.allowArgs, "id")) /\ Truthy(Get(meta.noArgs, "id"))
    /\ \A n \in TableNames :
          /\ Truthy(Get(meta.allowArgs, n)) /\ Truthy(Get(meta.noArgs, n)) => n = "id"
          /\ Truthy(Get(meta.assignArgs, n)) => Truthy(Get(meta.allowArgs, n))

\* no call takes a name out of the allowed or out of the forbidden names
C35_Kept ==
    \A n \in TableNames :
       /\ Truthy(Get(meta.allowArgs, n)) => Truthy(Get(meta'.allowArgs, n))
       /\ Truthy(Get(meta.noArgs, n)) => Truthy(Get(meta'.noArgs, n))

(* C35. After any sequence of args, addArgument, element and upload calls, *)
(* failing ones included, id is the only name that is both allowed and     *)
(* forbidden as an argument, every name marked assignable is allowed, and  *)
(* a name once allowed is never taken out of the allowed names, nor a name *)
(* once forbidden out of the forbidden ones.                               *)
C35_ArgumentTables == []C35_Tables /\ [][C35_Kept]_vars

\* args has failed on its second name, id, after it had allowed a; b is
\* forbidden, the name of an element
C35_Witness ==
    /\ last.op = "args" /\ last.list = <<"a", "id">> /\ Failed(last)
    /\ Truthy(Get(meta.allowArgs, "a")) /\ Truthy(Get(meta.assignArgs, "a"))
    /\ ~Truthy(Get(last.before.allowArgs, "a"))
    /\ Truthy(Get(meta.noArgs, "b")) /\ ~Truthy(Get(meta.allowArgs, "b"))

-----------------------------------------------------------------------------
(* Malformed callbacks.  click, on, toggle and stickyClick are declared on *)
(* the receptor a with a function, with an empty list and with a list      *)
(* whose head is null, an output on b among them; then the blueprint is    *)
(* attached.                                                               *)

CallbackSpecs == { <<"f">>, <<>>, <<"null", "a1">> }

NextMalformed ==
    \/ \E cb \in CallbackSpecs : MoreSetup /\ Click("a", cb)
    \/ \E cb \in CallbackSpecs : MoreSetup /\ On("change", "a", cb)
    \/ \E cb \in CallbackSpecs, off \in CallbackSpecs : MoreSetup /\ Toggle("a", cb, off)
    \/ \E cb \in CallbackSpecs : MoreSetup /\ StickyClick("a", "lock", cb)
    \/ MoreSetup /\ Output(<<"b">>)
    \/ Building /\ Attach(One(TreeAB), <<>>) /\ UNCHANGED calls

SpecMalformed == Init /\ [][NextMalformed]_vars

EventKinds == {"click", "on", "toggle", "stickyClick"}

\* the setup action was declared with a callback that curry refuses
Malformed(a) ==
    /\ a.kind \in EventKinds
    /\ \/ Failed(curry(a.cb))
       \/ a.kind = "toggle" /\ Failed(curry(a.off))

\* the setup actions of the blueprint with such a callback
BadActions == { k \in 1..Len(meta.setup) : Malformed(meta.setup[k].action) }

\* the first of them
FirstBad == CHOOSE k \in BadActions : \A j \in BadActions : k <= j

\* the declaration succeeds and enqueues its setup action, whatever the
\* callback is
C36_Declared ==
    last'.op \in EventKinds =>
       /\ ~Failed(last')
       /\ Len(meta'.setup) = Len(meta.setup) + 1
       /\ SubSeq(meta'.setup, 1, Len(meta.setup)) = meta.setup
       /\ meta'.setup[Len(meta'.setup)].action.kind = last'.op

\* attach throws in the first setup action with a malformed callback, the
\* actions before it having run on the instance and its nodes, the actions
\* after it not
C36_AtAttach ==
    last'.op = "attach" =>
       IF BadActions = {}
       THEN ~Failed(last')
       ELSE /\ last'.err = blame("Unexpected callback argument")
            /\ Len(SelectSeq(last'.log, IsSetupEv)) = FirstBad
            /\ \A j \in 1..FirstBad : last'.log[j].t = "setup" /\ last'.log[j].k = j
            /\ Len(insts'[Len(insts')].listeners) =
                  Cardinality({ j \in 1..(FirstBad - 1) : meta.setup[j].action.kind \in EventKinds })
            /\ DOMAIN insts'[Len(insts')].acc =
                  { meta.setup[j].action.name :
                      j \in { i \in 1..(FirstBad - 1) : meta.setup[i].action.kind = "output" } }
            /\ ~insts'[Len(insts')].attached

(* C36. A malformed callback passed to click, toggle, on or stickyClick is *)
(* not rejected by the declaration, which succeeds and enqueues its setup  *)
(* action; it is rejected only when an attach runs that setup action,      *)
(* after all setup actions declared earlier have run on the new instance   *)
(* and its nodes.                                                          *)
C36_RejectedAtAttach == [][C36_Declared /\ C36_AtAttach]_vars

\* attach has thrown in a toggle whose second callback is an empty list,
\* after the output declared before it was set up
C36_Witness ==
    /\ last.op = "attach" /\ last.err = blame("Unexpected callback argument")
    /\ Len(meta.setup) = 2
    /\ meta.setup[1].action.kind = "output"
    /\ meta.setup[2].action.kind = "toggle"
    /\ meta.setup[2].action.cb = <<"f">> /\ meta.setup[2].action.off = <<>>
    /\ DOMAIN insts[1].acc = {"b"}
    /\ Len(SelectSeq(last.log, IsSetupEv)) = 2

-----------------------------------------------------------------------------
(* The demo of the page: a task node and the editor it opens.  The two     *)
(* blueprints are built by the calls the page's script makes; the bodies   *)
(* of the callbacks, opaque to the library, are part of the actions below. *)
(* The receptors that play no part in editing (toggle, done, display,      *)
(* title, hours, remove) are left out of the node.                         *)

\* #library .editor
EditorTree ==
    [n |-> 5, parent |-> <<0, 1, 1, 1, 1>>, type |-> <<1, 1, 1, 1, 1>>,
     cls |-> << <<"editor">>, <<"jrna-value">>, <<"jrna-save">>, <<"jrna-dismiss">>,
                <<"jrna-comment">> >>]

\* #library .task
NodeTree ==
    [n |-> 8, parent |-> <<0, 1, 2, 2, 2, 1, 6, 6>>, type |-> <<1, 1, 1, 1, 1, 1, 1, 1>>,
     cls |-> << <<"task">>, <<"header", "jrna-header">>, <<"jrna-estimate">>, <<"jrna-edit">>,
                <<"jrna-split">>, <<"jrna-content">>, <<"jrna-children">>, <<"jrna-add">> >>]

\* one more call of a chain of declarations: the blueprint after Decl
Then(b, Decl(_)) == CHOOSE r \in { Decl(x).b : x \in {b} } : TRUE

\* const editor = new jRna()...
EditorMeta ==
    LET b1 == Then(NewBlueprint, LAMBDA b : htmlFrom(b, One(Doc(EditorTree, "library"))))
        b2 == Then(b1, LAMBDA b : args(b, <<"onSave", "onClose", "value", "size", "comment">>))
        b3 == Then(b2, LAMBDA b : output(b, <<"comment">>))
        b4 == Then(b3, LAMBDA b : input(b, <<"value">>))
        b5 == Then(b4, LAMBDA b : def(b, "save", "doSave"))
        b6 == Then(b5, LAMBDA b : click(b, "save", <<"save">>))
        b7 == Then(b6, LAMBDA b : click(b, "dismiss", <<"remove">>))
        b8 == Then(b7, LAMBDA b : on(b, "keypress", "value", <<"onKey">>))
        b9 == Then(b8, LAMBDA b : onAttach(b, "atAttach"))
    IN  Then(b9, LAMBDA b : onRemove(b, "atRemove"))

\* const node = new jRna()..., with the stickyClick on add made later
NodeMeta ==
    LET b1 == Then(NewBlueprint, LAMBDA b : htmlFrom(b, One(Doc(NodeTree, "library"))))
        b2 == Then(b1, LAMBDA b : args(b, <<"title", "parent", "children", "split", "hours",
                                            "done">>))
        b3 == Then(b2, LAMBDA b : element(b, <<"header">>))
        b4 == Then(b3, LAMBDA b : element(b, <<"content">>))
        b5 == Then(b4, LAMBDA b : element(b, <<"children", "childrenBox">>))
        b6 == Then(b5, LAMBDA b : stickyClick(b, "edit", "editLock", <<"onEdit">>))
        b7 == Then(b6, LAMBDA b : stickyClick(b, "estimate", "editLock", <<"onEstimate">>))
        b8 == Then(b7, LAMBDA b : stickyClick(b, "split", "editLock", <<"onSplit">>))
    IN  Then(b8, LAMBDA b : stickyClick(b, "add", "editLock", <<"onAdd">>))

\* onClose: () => { me.editLock = false; }
\* the mutant: onClose leaves the lock as it is
onClose_Keep(me) == me

onClose(me) == Assign(me, "editLock", "false")

\* the arguments each opener gives the editor, and the element of the node
\* it appends the editor to
EditorArgs(cb) ==
    CASE cb = "onEdit" -> <<Arg("value", "v1"), Arg("onSave", "saver"),
                            Arg("onClose", "closer"), Arg("comment", "v2")>>
      [] cb = "onEstimate" -> <<Arg("size", "3"), Arg("value", "v1"), Arg("onSave", "saver"),
                                Arg("onClose", "closer")>>
      [] cb = "onAdd" -> <<Arg("onSave", "saver"), Arg("onClose", "closer")>>

EditorBox(cb) == IF cb = "onAdd" THEN "childrenBox" ELSE "header"

Openers == {"onEdit", "onEstimate", "onAdd"}

\* the node of a subtree a receptor names
Receptor(tree, id) ==
    Node(CHOOSE k \in 1..tree.n : \E j \in 1..Len(tree.cls[k]) : tree.cls[k][j] = prefix \o id)

\* the user functions a run has called
Fired(log) == { log[j].name : j \in Started(log) }

\* the script of the page has run: meta is the blueprint of the node
Load ==
    /\ meta = NewBlueprint /\ insts = <<>>
    /\ meta' = NodeMeta
    /\ last' = [op |-> "load"]
    /\ UNCHANGED <<insts, machines>>

\* a click on edit, estimate, split or add of the node, with the body of
\* the callback it starts: an opener appends an editor to the header or
\* to the box of children, split releases the lock itself
ClickNode(id) ==
    \E r \in {dispatch(Run(insts[1], <<>>, NoErr), insts[1].listeners,
                       Receptor(NodeTree, id), "click")} :
    \E cbs \in {Fired(r.log)}, ed \in {EditorMeta}, n \in {Len(insts) + 1} :
    \E cb \in IF cbs \cap Openers = {} THEN {"none"} ELSE cbs \cap Openers :
    \E box \in {[kind |-> "$", nodes |-> <<ReadProp(r.inst, EditorBox(cb))>>]},
       given \in {IF cb = "none" THEN <<>> ELSE EditorArgs(cb)} :
    \E e \in {IF cb = "none" THEN [made |-> <<>>, log |-> <<>>, err |-> NoErr]
              ELSE appendTo(ed, n, box, given)} :
    /\ insts' = << IF "onSplit" \in cbs THEN Assign(r.inst, "editLock", "false") ELSE r.inst >>
                \o Tail(insts) \o e.made
    /\ last' = [op |-> "click", receptor |-> id, log |-> r.log, err |-> r.err,
                fired |-> cbs, made |-> Len(e.made), made_err |-> e.err]
    /\ UNCHANGED <<meta, machines>>

\* def('save', function() { this.onSave(this.value); this.remove(); })
saveBody(r) ==
    LET lg == Append(r.log, Call(ReadProp(r.inst, "onSave"), Undefined,
                                 <<ReadProp(r.inst, "value")>>))
        x  == remove(r.inst) IN
    Run(x.inst, lg \o x.log, x.err)

\* onRemove(function() { if (this.onClose) this.onClose(); }): what the
\* hook of the editor does to the node that opened it
closeHook(editor, me) ==
    IF Truthy(ReadProp(editor, "onClose")) THEN onClose(me) ELSE me

\* an event on a node of editor e with the bodies of the callbacks it
\* starts: save, the key handler (which saves on Enter) and the removal hook
EditorEvent(e, id, event, key) ==
    \E r \in {dispatch(Run(insts[e], <<>>, NoErr), insts[e].listeners,
                       Receptor(EditorTree, id), event)} :
    \E f \in {IF Failed(r) THEN r
              ELSE IF "doSave" \in Fired(r.log) THEN saveBody(r)
              ELSE IF "onKey" \in Fired(r.log) /\ key = "Enter"
              THEN LET s == Invoke(r, "save", r.inst.id, <<>>) IN
                   IF Failed(s) THEN s ELSE saveBody(s)
              ELSE r} :
    /\ insts' = [j \in 1..Len(insts) |->
                   IF j = e THEN f.inst
                   ELSE IF j = 1 /\ \E n \in 1..Len(f.log) :
                                       f.log[n].t = "unhook" /\ f.log[n].name = "atRemove"
                   THEN closeHook(insts[e], insts[1])
                   ELSE insts[j]]
    /\ last' = [op |-> "editor", inst |-> e, receptor |-> id, event |-> event, key |-> key,
                log |-> f.log, err |-> f.err]
    /\ UNCHANGED <<meta, machines>>

MaxEditors == 3

TreeBox == [kind |-> "$", nodes |-> <<"tree">>]

NextDemo ==
    \/ Load /\ UNCHANGED calls
    \/ meta = NodeMeta /\ Building /\ AppendTo(TreeBox, <<Arg("split", "true")>>) /\ UNCHANGED calls
    \/ \E id \in {"edit", "estimate", "split", "add"} :
          ~Building /\ Len(insts) <= MaxEditors /\ ClickNode(id) /\ UNCHANGED calls
    \/ \E e \in 2..Len(insts), id \in {"save", "dismiss"} :
          EditorEvent(e, id, "click", "none") /\ UNCHANGED calls
    \/ \E e \in 2..Len(insts), key \in {"Enter", "x"} :
          EditorEvent(e, "value", "keypress", key) /\ UNCHANGED calls

SpecDemo == Init /\ [][NextDemo]_vars

\* the editors that exist: made by a click on the node and not removed
Editors == { e \in 2..Len(insts) : ~Removed(insts[e]) }

EditLock == ReadProp(insts[1], "editLock")

\* at most one editor exists, and while one does the lock is held
C37_OneEditor ==
    /\ Cardinality(Editors) <= 1
    /\ Editors # {} => EditLock = "true"

\* a removal of the editor releases the lock; a click on the node while
\* the lock is released starts the one callback of the node clicked, and
\* one while it is held starts none
C37_Release ==
    /\ \A e \in Editors : Removed(insts'[e]) =>
          /\ ~Truthy(ReadProp(insts'[1], "editLock"))
          /\ last'.op = "editor"
    /\ last'.op = "click" =>
          IF Truthy(EditLock)
          THEN last'.fired = {} /\ insts' = insts
          ELSE /\ Cardinality(Started(last'.log)) = 1
               /\ last'.fired \subseteq {"onEdit", "onEstimate", "onSplit", "onAdd"}
               /\ last'.fired \cap Openers # {} =>
                     /\ last'.made = 1
                     /\ Editors' = {Len(insts')}

(* C37. The protocol of a task node of the demo: edit, estimate, split and *)
(* add are guarded by the one lock editLock, which the removal hook of the *)
(* editor releases through onClose.  Whatever is clicked on the node and   *)
(* on the editors it opened, at most one editor of the node exists at any  *)
(* time, and every removal of that editor (save, the Enter key or dismiss) *)
(* releases editLock, so that a later click on edit, estimate, split or    *)
(* add of the node fires again.                                            *)
C37_NodeProtocol == []C37_OneEditor /\ [][C37_Release]_vars

\* an editor was opened and removed, and a later click has opened another
C37_Witness ==
    /\ Len(insts) = 3
    /\ Removed(insts[2]) /\ ~Removed(insts[3])
    /\ last.op = "click" /\ last.fired \cap Openers # {}
    /\ EditLock = "true"

-----------------------------------------------------------------------------
(* attach as src/js/jrna.js has it: no findClasses, every setup action     *)
(* looks its own receptor up and runs at once.                             *)

\* container.find('.' + cls), with the container itself when it has the
\* class: the elements selected, in document order
findAll(tree, cls) ==
    LET hit(k) == k \in Carriers(tree, cls)
        ks     == SelectSeq([k \in 1..tree.n |-> k], hit) IN
    [kind |-> "$", nodes |-> [i \in 1..Len(ks) |-> Node(ks[i])]]

\* one round of the loop of lines 563-573: the receptor is looked up and
\* checked, then the action runs on it, then inst.element gets it
stepJs(b, r, k) ==
    LET id  == b.setup[k].id
        cls == prefix \o id
        c   == checkElement(findAll(r.inst.container, cls), "fulfill ." \o cls \o " with") IN
    IF Failed(c) THEN Run(r.inst, r.log, c.err)
    ELSE runAction(b, Run([r.inst EXCEPT !.element = Put(r.inst.element, id, c.el)],
                          r.log, NoErr), k)

\* for (let action of meta._setup) ..., from the k-th entry on
RECURSIVE runSetupJs(_, _, _)
runSetupJs(b, r, k) ==
    IF Failed(r) \/ k > Len(b.setup) THEN r
    ELSE runSetupJs(b, stepJs(b, r, k), k + 1)

\* this.attach(container, args) of src/js/jrna.js
attachJs(b, n, container, arguments) ==
    LET c  == checkElement(container, "attach to")
        r0 == Run(NewBound(b, n, c.el), <<>>, NoErr)
        r2 == runSetupJs(b, r0, 1)
        r3 == runInit(b, r2, arguments, 1)
        r4 == runArgs(b, r3, arguments, 1)
        r5 == runHooks(b, r4, arguments, 1) IN
    IF Failed(c) THEN [made |-> <<>>, log |-> <<>>, err |-> c.err]
    ELSE [made |-> <<[r5.inst EXCEPT !.attached = ~Failed(r5)]>>, log |-> r5.log, err |-> r5.err]

\* meta.attach(container, args), src/js/jrna.js
AttachJs(container, arguments) ==
    \E r \in {attachJs(meta, Len(insts) + 1, container, arguments)} :
    /\ insts' = insts \o r.made
    /\ last' = [op |-> "attach", container |-> container, args |-> arguments,
                made |-> Len(r.made), log |-> r.log, err |-> r.err]
    /\ UNCHANGED <<meta, machines>>

NextFailFast ==
    \/ MoreSetup /\ Output(<<"a">>)
    \/ \E id \in {"a", "b"} : MoreSetup /\ Click(id, Fn("f"))
    \/ Building /\ \E tree \in Trees : AttachJs(One(tree), <<>>) /\ UNCHANGED calls

SpecFailFast == Init /\ [][NextFailFast]_vars

\* the setup actions whose receptor is not carried by exactly one element
\* of the container that attach was given
Unresolved ==
    { k \in 1..Len(meta.setup) :
        Cardinality(Carriers(last.container.nodes[1], prefix \o meta.setup[k].id)) # 1 }

(* C38. attach of src/js/jrna.js fails fast: when a receptor named by a    *)
(* setup action is missing from the container or occurs in it more than    *)
(* once, attach fails before any setup action has been executed on the new *)
(* instance.                                                               *)
C38_FailFast ==
    last.op = "attach" /\ Unresolved # {} =>
       /\ Failed(last)
       /\ SelectSeq(last.log, IsSetupEv) = <<>>
       /\ \A i \in 1..Len(insts) : insts[i].listeners = <<>> /\ DOMAIN insts[i].acc = {}

\* what the code does: attach fails at the first setup action whose
\* receptor does not resolve, after the actions declared before it have
\* run, each on the one element of its receptor
C38_FailsAtFirst ==
    last.op = "attach" /\ Unresolved # {} =>
       LET bad == CHOOSE k \in Unresolved : \A j \in Unresolved : k <= j
           ran == SelectSeq(last.log, IsSetupEv) IN
       /\ Failed(last)
       /\ last.err.msg \in { "Cannot fulfill ." \o prefix \o meta.setup[bad].id \o " with" \o w :
                             w \in {" a missing element", " an ambiguous element"} }
       /\ Len(ran) = bad - 1
       /\ \A j \in 1..Len(ran) : ran[j].k = j /\ ran[j].name = meta.setup[j].id
       /\ ~insts[1].attached

\* attach has failed on its second receptor with the first action run:
\* the listener of the first is on its node
C38_Witness ==
    /\ last.op = "attach" /\ Failed(last)
    /\ Unresolved = {2}
    /\ Len(SelectSeq(last.log, IsSetupEv)) = 1
    /\ Len(insts[1].listeners) = 1

====
